---- MODULE Spec2Model ----
(***************************************************************************)
(* A model of the miniclaw gateway (src/src/server.ts) and of the run      *)
(* adapters that plug into it (the demo adapter in server.ts, the Ollama   *)
(* and OpenAI-compatible adapters in src/src/ollama.ts and                 *)
(* src/unnamed/part_001, the Gemini adapter in src/src/gemini.ts).         *)
(*                                                                         *)
(* The server is a single JavaScript event loop: every handler runs to     *)
(* completion, and a run task gives up control only at an await.  One      *)
(* action of the model is therefore one handler, one timer callback, or    *)
(* the stretch of a run task between two awaits.                           *)
(***************************************************************************)
EXTENDS Integers, Sequences, FiniteSets, TLC

\* ---------------------------------------------------------------- bounds

\* Connections the server accepts in one behaviour.
MaxConns == 2
\* Runs created in one behaviour.
MaxRuns == 1
\* Well-formed request frames received in one behaviour.
MaxReqs == 4
\* Frames that are not well-formed requests received in one behaviour.
MaxJunk == 1
\* Words of a demo response text (and of a demo thinking block).
MaxWords == 2
\* Chunks the backend streams to an external adapter during one run.
MaxChunks == 2
\* The clock runs from 0 to MaxTime.
MaxTime == 2

\* ------------------------------------------------------ program constants

PROTOCOL_VERSION == 3
MAX_ITERATIONS == 10
\* config.dedupeTtlMs, in clock ticks (server.test.ts configures it too).
DedupeTtl == 1
\* config.dedupeMaxKeys.
DedupeMaxKeys == 2

Conns == 1..MaxConns
RunIds == 1..MaxRuns
Sessions == {"main", "default"}
IdemKeys == {"k1", "k2"}

\* The messages a client submits: two slash commands and a text that begins
\* with "/" without being a command, and one message for each shape of demo
\* response (text only, a tool call, a thinking block).
Messages == {"/new", "/help", "/foo", "hello", "weather", "think"}

VARIABLES
    config,            \* ResolvedConfig.authToken / authPassword, and onAgentRun
    stopped,           \* stop() has run
    now,               \* Date.now()
    connCounter,       \* this.connCounter
    conns,             \* each socket: readyState, ws.data.authenticated, close code
    handshakeTimeouts, \* this.handshakeTimeouts (the sockets with an armed timer)
    clients,           \* this.clients
    presence,          \* this.presence (instanceIds, in insertion order)
    stateVersion,      \* this.stateVersion
    globalSeq,         \* this.globalSeq
    runs,              \* this.runs, in creation order (runCounter = Len(runs))
    task,              \* each run's executeRun task: where it awaits, its locals
    events,            \* per run: the agent and chat events broadcast for it
    chatHistory,       \* this.chatHistory
    sessionMeta,       \* this.sessionMeta (the keys that have a record)
    idempotencyKeys,   \* this.idempotencyKeys, in insertion order
    responses,         \* per request received: how many response frames were sent for it
    junk,              \* frames received that were no well-formed request
    inbound,           \* the frame (or HTTP request) handled by the last step
    out                \* the frames the server sent during the last step

vars == <<config, stopped, now, connCounter, conns, handshakeTimeouts, clients,
          presence, stateVersion, globalSeq, runs, task, events, chatHistory,
          sessionMeta, idempotencyKeys, responses, junk, inbound, out>>

connVars == <<connCounter, conns, handshakeTimeouts, clients, presence, stateVersion>>
runVars == <<runs, task, events>>
storeVars == <<chatHistory, sessionMeta, idempotencyKeys>>

NoFrame == [kind |-> "none"]

\* ------------------------------------------------------------------ frames

\* A response frame (sendResponse / sendError); id 0 stands for "unknown".
Res(c, id, ok, code, payload) ==
    [type |-> "res", to |-> {c}, id |-> id, ok |-> ok, code |-> code, payload |-> payload]

SendResponse(c, id, payload) == Res(c, id, TRUE, "", payload)

SendError(c, id, code, message) == Res(c, id, FALSE, code, [message |-> message])

\* What chatAndWait's promise resolves to (the HTTP surface's answer).
HttpResolved(result) == [type |-> "http", to |-> {}, payload |-> result]

\* responses, with one more response counted for every response frame of `frames'
\* that answers a request.
\* (ws.send on a socket that has closed delivers nothing.)
RECURSIVE Tally(_, _)
Tally(resp, frames) ==
    IF frames = <<>> THEN resp
    ELSE LET f == Head(frames) IN
         Tally(IF /\ f.type = "res"
                  /\ f.id \in DOMAIN resp
                  /\ \A c \in f.to : conns[c].st = "open"
               THEN [resp EXCEPT ![f.id] = @ + 1] ELSE resp,
               Tail(frames))

\* ------------------------------------------------------- demo responses

\* lower.startsWith("/"): handleSlashCommand answers every such text.
\* A variant of the test that intercepts only the commands handleSlashCommand
\* knows; C20 must notice it.
KnownCommand(msg) == msg \in {"/new", "/help"}

Slash(msg) == msg \in {"/new", "/help", "/foo"}

\* A text of MaxWords words: words ("w") separated by whitespace ("s"), as
\* text.split(/(\s+)/) yields them.
DemoTokens == [i \in 1..(2 * MaxWords - 1) |-> IF i % 2 = 1 THEN "w" ELSE "s"]

\* matchResponse: the shape of the canned response (thinking block, number of
\* tool calls, text).
MatchResponse(msg) ==
    [thinking  |-> IF msg = "think" THEN DemoTokens ELSE <<>>,
     toolCalls |-> IF msg = "weather" THEN 1 ELSE 0,
     text      |-> DemoTokens]

\* ------------------------------------------------------------- run engine
\* The operators below thread a context through the statements of a run:
\*   run, task : the Run object and the task's locals
\*   hist, meta: chatHistory and sessionMeta
\*   gseq      : globalSeq
\*   ev        : the events emitted for the run during this step
\*   sent      : the frames sent during this step

Ctx(r) ==
    [run |-> runs[r], task |-> task[r], hist |-> chatHistory, meta |-> sessionMeta,
     gseq |-> globalSeq, ev |-> <<>>, sent |-> <<>>]

Idle == [pc |-> "done", i |-> 0, iter |-> 0, text |-> <<>>, think |-> <<>>,
         calls |-> <<>>, parts |-> 0, chunks |-> 0]

\* A variant of broadcast that sends to every open socket, authenticated or
\* not; C13 must notice it.
BroadcastToSockets(ctx, payload) ==
    [ctx EXCEPT !.gseq = @ + 1,
                !.sent = Append(@, [type |-> "event",
                                    to |-> {c \in Conns : conns[c].st = "open"},
                                    seq |-> ctx.gseq + 1, payload |-> payload])]

\* A variant of broadcast that stamps the seq without advancing it; C14 must
\* notice it.
BroadcastSameSeq(ctx, payload) ==
    [ctx EXCEPT !.sent = Append(@, [type |-> "event", to |-> clients,
                                    seq |-> ctx.gseq, payload |-> payload])]

\* broadcast: stamps the next global seq and sends to every client.
Broadcast(ctx, payload) ==
    [ctx EXCEPT !.gseq = @ + 1,
                !.sent = Append(@, [type |-> "event", to |-> clients,
                                    seq |-> ctx.gseq + 1, payload |-> payload])]

\* A variant of emitAgentEvent that stamps run.seq without advancing it; C23
\* must notice it.
EmitAgentSameSeq(ctx, kind, text) ==
    LET e == [event |-> "agent", kind |-> kind, runId |-> ctx.run.runId,
              seq |-> ctx.run.seq, text |-> text]
    IN Broadcast([ctx EXCEPT !.ev = Append(@, e)], e)

EmitAgentEvent(ctx, kind, text) ==
    LET e == [event |-> "agent", kind |-> kind, runId |-> ctx.run.runId,
              seq |-> ctx.run.seq + 1, text |-> text]
    IN Broadcast([ctx EXCEPT !.run.seq = @ + 1, !.ev = Append(@, e)], e)

\* A variant of emitChatEvent that emits nothing; C4 must notice it.
DropChatEvent(ctx, state, text) == ctx

EmitChatEvent(ctx, state, text) ==
    LET e == [event |-> "chat", kind |-> state, runId |-> ctx.run.runId,
              seq |-> ctx.run.seq, text |-> text]
    IN Broadcast([ctx EXCEPT !.ev = Append(@, e)], e)

\* A variant of appendHistory that stores nothing; C16 must notice it.
HistoryNotStored(ctx, key, entry) == [ctx EXCEPT !.meta = @ \cup {key}]

AppendHistory(ctx, key, entry) ==
    [ctx EXCEPT !.hist[key] = Append(@, entry), !.meta = @ \cup {key}]

\* The frames that resolving the waiters sends: a response to an agent.wait
\* caller, the resolution of a chatAndWait promise.
ResolveWaiters(waiters, result) ==
    [i \in 1..Len(waiters) |->
        IF waiters[i].kind = "ws"
        THEN SendResponse(waiters[i].conn, waiters[i].id, result)
        ELSE HttpResolved(result)]

\* A variant of finishRun that emits the chat event before the lifecycle
\* event; C21 must notice it.
FinishChatFirst(ctx, state, content) ==
    LET c1 == [ctx EXCEPT !.run.state = state, !.run.waitResolvers = <<>>,
                          !.task.pc = "done"]
    IN IF state = "completed"
       THEN EmitAgentEvent(EmitChatEvent(c1, "final", c1.run.accumulatedText),
                           "lifecycle.end", <<>>)
       ELSE EmitAgentEvent(EmitChatEvent(c1, "error", <<>>), "lifecycle.error", <<>>)

\* A variant of finishRun that only sets the state; C3 must notice it.
FinishSilently(ctx, state, content) == [ctx EXCEPT !.run.state = state, !.task.pc = "done"]

FinishRun(ctx, state, content) ==
    LET c1 == [ctx EXCEPT !.run.state = state]
        c2 == IF state = "completed"
              THEN AppendHistory(
                     EmitChatEvent(EmitAgentEvent(c1, "lifecycle.end", <<>>),
                                   "final", c1.run.accumulatedText),
                     c1.run.sessionKey,
                     [role |-> "assistant", text |-> content.text,
                      tools |-> content.tools, stopReason |-> "end_turn"])
              ELSE EmitChatEvent(EmitAgentEvent(c1, "lifecycle.error", <<>>),
                                 "error", <<>>)
        result == [runId |-> c2.run.runId, state |-> c2.run.state,
                   text |-> c2.run.accumulatedText]
    IN [c2 EXCEPT !.sent = @ \o ResolveWaiters(c2.run.waitResolvers, result),
                  !.run.waitResolvers = <<>>,
                  !.task.pc = "done"]

\* A variant of isAborted that never sees the signal; C6 must notice it.
NeverAborted(run) == FALSE

\* isAborted: reads the cancellation signal (and marks the run aborted).
IsAborted(run) == run.aborted

MarkAborted(ctx) == [ctx EXCEPT !.run.state = "aborted", !.task.pc = "done"]

\* A variant of the catch clause that swallows the error; C18 must notice it.
CatchSwallows(ctx) == [ctx EXCEPT !.task.pc = "done"]

\* A variant of the catch clause without its guard; C2 must notice it.
CatchUnguarded(ctx) == FinishRun(ctx, "error", [text |-> <<>>, tools |-> 0])

\* executeRun's catch clause.
Catch(ctx) ==
    IF ctx.run.state = "running" THEN FinishRun(ctx, "error", [text |-> <<>>, tools |-> 0])
    ELSE [ctx EXCEPT !.task.pc = "done"]

\* ------------------------------------------------- demo adapter (executeRun)
\* Each operator runs the task from one point of executeRun's demo branch to
\* its next await (Bun.sleep), where it leaves task.pc, or to its return.

DemoContent(ctx) ==
    [text |-> ctx.run.accumulatedText, tools |-> MatchResponse(ctx.run.message).toolCalls]

\* streamText from word i on; `due' says whether 150 ms have passed since the
\* last chat delta (always so at the first word, where lastDeltaAt is 0).
RECURSIVE StreamText(_, _, _)
StreamText(ctx, i, due) ==
    LET words == MatchResponse(ctx.run.message).text IN
    IF i > Len(words)
    THEN \* the loop is over: the final delta, then executeRun's last check
         LET c1 == EmitChatEvent(ctx, "delta", ctx.run.accumulatedText) IN
         IF IsAborted(c1.run) THEN MarkAborted(c1)
         ELSE FinishRun(c1, "completed", DemoContent(c1))
    ELSE IF IsAborted(ctx.run) THEN MarkAborted(ctx)
    ELSE LET acc == Append(ctx.run.accumulatedText, i)
             c1 == EmitAgentEvent([ctx EXCEPT !.run.accumulatedText = acc],
                                  "assistant", acc)
             c2 == IF due THEN EmitChatEvent(c1, "delta", acc) ELSE c1
         IN IF words[i] = "w"
            THEN [c2 EXCEPT !.task.pc = "d.text", !.task.i = i + 1]
            ELSE StreamText(c2, i + 1, FALSE)

\* executeToolCall for tool call k, up to its sleep; after the last tool call,
\* phase 3.
DemoTools(ctx, k) ==
    IF k > MatchResponse(ctx.run.message).toolCalls
    THEN IF IsAborted(ctx.run) THEN MarkAborted(ctx) ELSE StreamText(ctx, 1, TRUE)
    ELSE IF IsAborted(ctx.run) THEN MarkAborted(ctx)
    ELSE [EmitAgentEvent(ctx, "tool.start", <<>>) EXCEPT !.task.pc = "d.tool", !.task.i = k]

\* executeToolCall after its sleep.
ResumeDemoTool(ctx) ==
    IF IsAborted(ctx.run) THEN MarkAborted(ctx)
    ELSE DemoTools(EmitAgentEvent(ctx, "tool.result", <<>>), ctx.task.i + 1)

\* streamThinking from word i on; after the last word, phase 2.
RECURSIVE StreamThinking(_, _)
StreamThinking(ctx, i) ==
    LET words == MatchResponse(ctx.run.message).thinking IN
    IF i > Len(words)
    THEN IF IsAborted(ctx.run) THEN MarkAborted(ctx) ELSE DemoTools(ctx, 1)
    ELSE IF IsAborted(ctx.run) THEN MarkAborted(ctx)
    ELSE LET acc == Append(ctx.task.think, i)
             c1 == EmitAgentEvent([ctx EXCEPT !.task.think = acc], "reasoning", acc)
         IN IF words[i] = "w"
            THEN [c1 EXCEPT !.task.pc = "d.think", !.task.i = i + 1]
            ELSE StreamThinking(c1, i + 1)

\* The demo branch from its start to its first await.
DemoStart(ctx) ==
    LET c1 == EmitAgentEvent(ctx, "lifecycle.start", <<>>) IN
    IF IsAborted(c1.run) THEN MarkAborted(c1)
    ELSE IF MatchResponse(c1.run.message).thinking # <<>> THEN StreamThinking(c1, 1)
    ELSE DemoTools(c1, 1)

\* ------------------------------------- external adapter (createOllamaHandler)
\* The Ollama and the OpenAI-compatible adapter have the same control flow
\* (handler "external").  The Gemini adapter (handler "gemini") awaits the same
\* fetch and the same stream reads, but it has no tool loop: it ignores the
\* chunks that are not text, and it checks the signal before each read only.
\* The backend's fetch and stream reads are given the run's AbortSignal, so an
\* await on them rejects once the signal has fired; mcpManager.callTool is not.

\* contentParts: the tool_call parts, and the text part that only a stream
\* without tool calls adds.
ExtContent(ctx, withText) ==
    [text |-> IF withText THEN ctx.task.text ELSE <<>>, tools |-> ctx.task.parts]

\* After the tool loop: the last cancellation check, then finishRun.
ExtAfterLoop(ctx, content) ==
    IF ctx.run.aborted THEN MarkAborted(ctx)
    ELSE FinishRun(ctx, "completed", content)

\* A variant of the loop head without the cap; C37 must notice it.
ExtLoopUncapped(ctx) ==
    LET c1 == [ctx EXCEPT !.task.iter = @ + 1] IN
    IF c1.run.aborted THEN MarkAborted(c1)
    ELSE [c1 EXCEPT !.task.pc = "x.chat"]

\* The head of the tool loop, up to `await ollamaChat(...)'.
ExtLoopTop(ctx) ==
    IF ctx.task.iter < MAX_ITERATIONS
    THEN LET c1 == [ctx EXCEPT !.task.iter = @ + 1] IN
         IF c1.run.aborted THEN MarkAborted(c1)
         ELSE [c1 EXCEPT !.task.pc = "x.chat"]
    ELSE ExtAfterLoop(ctx, ExtContent(ctx, FALSE))

\* The tool calls of one iteration from call k on, up to an await of
\* mcpManager.callTool; after the last call, `continue'.
RECURSIVE ExtTools(_, _)
ExtTools(ctx, k) ==
    IF k > Len(ctx.task.calls) THEN ExtLoopTop(ctx)
    ELSE LET c1 == EmitAgentEvent(ctx, "tool.start", <<>>) IN
         IF ctx.task.calls[k] = "mcp"
         THEN [c1 EXCEPT !.task.pc = "x.mcp", !.task.i = k]
         ELSE ExtTools([EmitAgentEvent(c1, "tool.result", <<>>) EXCEPT !.task.parts = @ + 1],
                       k + 1)

\* `await mcpManager.callTool(...)' has returned.
ResumeMcp(ctx) ==
    ExtTools([EmitAgentEvent(ctx, "tool.result", <<>>) EXCEPT !.task.parts = @ + 1],
             ctx.task.i + 1)

\* `await ollamaChat(...)' has returned (outcome "ok") or thrown.
ResumeChat(ctx, outcome) ==
    IF ctx.run.aborted \/ outcome = "error" THEN Catch(ctx)
    ELSE [ctx EXCEPT !.task.text = <<>>, !.task.think = <<>>, !.task.calls = <<>>,
                     !.task.pc = "x.read"]

\* The stream is done: run the tool calls, or close the text response (the
\* Gemini adapter calls finishRun without a last look at the signal).
ExtStreamEnd(ctx) ==
    LET c1 == IF ctx.task.text # <<>>
              THEN EmitChatEvent(ctx, "delta", ctx.task.text) ELSE ctx
    IN IF config.handler = "gemini" THEN FinishRun(c1, "completed", ExtContent(ctx, TRUE))
       ELSE IF ctx.task.calls # <<>> THEN ExtTools(ctx, 1)
       ELSE ExtAfterLoop(c1, ExtContent(ctx, TRUE))

\* `await reader.read()' has returned `chunk' ("done" at the end of the stream)
\* or thrown ("error"); `due' as in StreamText.
ResumeRead(ctx, chunk, due) ==
    IF ctx.run.aborted \/ chunk = "error" THEN Catch(ctx)
    ELSE IF chunk = "done" THEN ExtStreamEnd(ctx)
    ELSE LET c0 == [ctx EXCEPT !.task.chunks = @ + 1] IN
         CASE chunk = "thinking" ->
                LET acc == Append(c0.task.think, c0.task.iter) IN
                EmitAgentEvent([c0 EXCEPT !.task.think = acc],
                               IF config.handler = "gemini" THEN "thinking"
                               ELSE "reasoning", acc)
           [] chunk = "text" ->
                LET acc == Append(c0.task.text, c0.task.iter)
                    c1 == EmitAgentEvent([c0 EXCEPT !.task.text = acc,
                                                    !.run.accumulatedText = acc],
                                         "assistant", acc)
                IN IF due \/ c0.task.text = <<>> THEN EmitChatEvent(c1, "delta", acc) ELSE c1
           [] OTHER -> \* a tool call: "mcp" (namespaced) or "mock"
                IF config.handler = "gemini" THEN c0
                ELSE [c0 EXCEPT !.task.calls = Append(@, chunk)]

\* The adapter from its start to its first await.
ExtStart(ctx) ==
    LET c1 == EmitAgentEvent(ctx, "lifecycle.start", <<>>) IN
    IF config.handler = "gemini" THEN [c1 EXCEPT !.task.pc = "x.chat"]
    ELSE ExtLoopTop(c1)

\* ------------------------------------------------------------- executeRun

SlashReply == <<0>>

\* handleSlashCommand's effect on the store ("/new" clears the history).
HandleSlashCommand(ctx) ==
    IF ctx.run.message = "/new" THEN [ctx EXCEPT !.hist[ctx.run.sessionKey] = <<>>] ELSE ctx

\* executeRun from its start to its first await.
ExecuteRun(ctx) ==
    IF Slash(ctx.run.message)
    THEN LET c1 == EmitAgentEvent(HandleSlashCommand(ctx), "lifecycle.start", <<>>)
             c2 == EmitChatEvent([c1 EXCEPT !.run.accumulatedText = SlashReply],
                                 "delta", SlashReply)
             c3 == AppendHistory(c2, c2.run.sessionKey,
                                 [role |-> "assistant", text |-> SlashReply,
                                  tools |-> 0, stopReason |-> "stop"])
         IN FinishRun(c3, "completed", [text |-> SlashReply, tools |-> 0])
    ELSE IF config.handler = "demo" THEN DemoStart(ctx)
    ELSE ExtStart(ctx)

\* createRun.
CreateRun(sessionKey, message) ==
    [runId |-> Len(runs) + 1, sessionKey |-> sessionKey, message |-> message,
     seq |-> 0, state |-> "running", accumulatedText |-> <<>>,
     aborted |-> FALSE, waitResolvers |-> <<>>]

\* ---------------------------------------------------------------- server

Init ==
    /\ config \in [authToken : {"", "secret"}, authPassword : {"", "pass"},
                   handler : {"demo", "external", "gemini"}]
    /\ stopped = FALSE
    /\ now = 0
    /\ connCounter = 0
    /\ conns = [c \in Conns |-> [st |-> "none", authenticated |-> FALSE, closeCode |-> 0]]
    /\ handshakeTimeouts = {}
    /\ clients = {}
    /\ presence = <<>>
    /\ stateVersion = [presence |-> 0, health |-> 0]
    /\ globalSeq = 0
    /\ runs = <<>>
    /\ task = <<>>
    /\ events = <<>>
    /\ chatHistory = [k \in Sessions |-> <<>>]
    /\ sessionMeta = {}
    /\ idempotencyKeys = <<>>
    /\ responses = <<>>
    /\ junk = 0
    /\ inbound = NoFrame
    /\ out = <<>>

\* A variant of ws.close that always closes with 1008; C10 must notice it.
CloseAlways1008(cs, c, code) ==
    IF cs[c].st = "open" THEN [cs EXCEPT ![c].st = "closing", ![c].closeCode = 1008] ELSE cs

\* ws.close(code): the socket starts closing; its close handler runs later.
Close(cs, c, code) ==
    IF cs[c].st = "open" THEN [cs EXCEPT ![c].st = "closing", ![c].closeCode = code] ELSE cs

\* A variant of broadcastPresence that sends the list as it was before the
\* handler changed it, with the new counter; C12 must notice it.
StalePresenceEvent(list, version, seq, to) ==
    [type |-> "event", to |-> to, seq |-> seq,
     payload |-> [event |-> "presence", presence |-> presence, stateVersion |-> version]]

\* A variant of broadcastPresence that sends the event to nobody; C25 must
\* notice it.
PresenceEventUnsent(list, version, seq, to) ==
    [type |-> "event", to |-> {}, seq |-> seq,
     payload |-> [event |-> "presence", presence |-> list, stateVersion |-> version]]

\* A presence event, as broadcastPresence builds it.
PresenceEvent(list, version, seq, to) ==
    [type |-> "event", to |-> to, seq |-> seq,
     payload |-> [event |-> "presence", presence |-> list, stateVersion |-> version]]

\* handleOpen: a socket is accepted.
HandleOpen ==
    /\ ~stopped
    /\ connCounter < MaxConns
    /\ LET c == connCounter + 1 IN
       /\ connCounter' = c
       /\ conns' = [conns EXCEPT ![c].st = "open"]
       /\ handshakeTimeouts' = handshakeTimeouts \cup {c}
       /\ out' = << [type |-> "hello", to |-> {c}],
                    [type |-> "event", to |-> {c}, seq |-> 0,
                     payload |-> [event |-> "connect.challenge"]] >>
    /\ inbound' = NoFrame
    /\ UNCHANGED <<config, stopped, now, clients, presence, stateVersion, globalSeq,
                   runVars, storeVars, responses, junk>>

\* A variant of the timer callback that closes nothing; C24 must notice it.
TimeoutIdle(c) ==
    /\ c \in handshakeTimeouts
    /\ handshakeTimeouts' = handshakeTimeouts \ {c}
    /\ inbound' = NoFrame
    /\ out' = <<>>
    /\ UNCHANGED <<config, stopped, now, connCounter, conns, clients, presence,
                   stateVersion, globalSeq, runVars, storeVars, responses, junk>>

\* The handshake timer of socket c fires.
HandshakeTimeout(c) ==
    /\ c \in handshakeTimeouts
    /\ conns' = IF ~conns[c].authenticated THEN Close(conns, c, 1008) ELSE conns
    /\ handshakeTimeouts' = handshakeTimeouts \ {c}
    /\ inbound' = NoFrame
    /\ out' = <<>>
    /\ UNCHANGED <<config, stopped, now, connCounter, clients, presence, stateVersion,
                   globalSeq, runVars, storeVars, responses, junk>>

\* A variant of removePresence that removes nothing; C11 must notice it.
PresenceKept(list, c) == list

\* A variant of removePresence that empties the list; C26 must notice it.
PresenceCleared(list, c) == <<>>

\* removePresence.
RemovePresence(list, c) == SelectSeq(list, LAMBDA p : p # c)

\* A variant of handleClose that cancels the runs still running; C32 must
\* notice it.
HandleCloseAborts(c) ==
    /\ conns[c].st \in {"open", "closing"}
    /\ conns' = [conns EXCEPT ![c].st = "closed"]
    /\ handshakeTimeouts' = handshakeTimeouts \ {c}
    /\ clients' = clients \ {c}
    /\ runs' = [r \in DOMAIN runs |->
                  IF runs[r].state = "running"
                  THEN [runs[r] EXCEPT !.aborted = TRUE, !.state = "aborted"]
                  ELSE runs[r]]
    /\ IF conns[c].authenticated
       THEN /\ presence' = SelectSeq(presence, LAMBDA p : p # c)
            /\ stateVersion' = [stateVersion EXCEPT !.presence = @ + 1]
            /\ globalSeq' = globalSeq + 1
            /\ out' = << [type |-> "event", to |-> clients', seq |-> globalSeq',
                          payload |-> [event |-> "presence", presence |-> presence',
                                       stateVersion |-> stateVersion']] >>
       ELSE /\ UNCHANGED <<presence, stateVersion, globalSeq>>
            /\ out' = <<>>
    /\ inbound' = NoFrame
    /\ UNCHANGED <<config, stopped, now, connCounter, task, events, storeVars, responses,
                   junk>>

\* handleClose: socket c has closed (the peer closed it, or the server did).
HandleClose(c) ==
    /\ conns[c].st \in {"open", "closing"}
    /\ conns' = [conns EXCEPT ![c].st = "closed"]
    /\ handshakeTimeouts' = handshakeTimeouts \ {c}
    /\ clients' = clients \ {c}
    /\ IF conns[c].authenticated
       THEN /\ presence' = RemovePresence(presence, c)
            /\ stateVersion' = [stateVersion EXCEPT !.presence = @ + 1]
            /\ globalSeq' = globalSeq + 1
            /\ out' = << PresenceEvent(presence', stateVersion', globalSeq', clients') >>
       ELSE /\ UNCHANGED <<presence, stateVersion, globalSeq>>
            /\ out' = <<>>
    /\ inbound' = NoFrame
    /\ UNCHANGED <<config, stopped, now, connCounter, runVars, storeVars, responses, junk>>

\* A frame that is no well-formed request: too large, not JSON, not of type
\* "req", without an id, or the JSON literal null.
JunkShapes == {"oversize", "malformed", "nonreq", "noid", "null"}

\* handleMessage on such a frame.
RecvJunk(c, shape) ==
    /\ conns[c].st = "open"
    /\ junk < MaxJunk
    /\ junk' = junk + 1
    /\ inbound' = [kind |-> "ws", conn |-> c, shape |-> shape]
    /\ out' = IF shape = "null"
              THEN \* JSON.parse yields null and `frame.type' throws: nothing is
                   \* sent, and handleMessage closes nothing
                   <<>>
              ELSE << SendError(c, 0, "INVALID_REQUEST",
                                CASE shape = "oversize" -> "Payload too large"
                                  [] shape = "malformed" -> "Malformed JSON"
                                  [] shape = "nonreq" -> "Expected type: req"
                                  [] OTHER -> "Missing id or method") >>
    /\ conns' = IF shape = "oversize" THEN Close(conns, c, 1009) ELSE conns
    /\ UNCHANGED <<config, stopped, now, connCounter, handshakeTimeouts, clients,
                   presence, stateVersion, globalSeq, runVars, storeVars, responses>>

\* The id of the request frame being received.
NewId == Len(responses) + 1

\* A request frame of socket c, as handleMessage sees it.
Request(c, method, params) ==
    [kind |-> "ws", conn |-> c, shape |-> "req", id |-> NewId,
     method |-> method, params |-> params]

\* Methods that only read state or are stubs, two methods that are not
\* registered ("connect" is handled before the dispatch only), and a request
\* without a method ("").
PlainMethods == {"health", "chat.subscribe", "connect", "nope", ""}

\* handleMessage on socket c before it has authenticated, for a request that
\* is not a connect.
RecvBeforeConnect(c, method) ==
    /\ conns[c].st = "open" /\ ~conns[c].authenticated
    /\ Len(responses) < MaxReqs
    /\ inbound' = Request(c, method, [none |-> TRUE])
    /\ IF method = ""
       THEN /\ out' = << SendError(c, NewId, "INVALID_REQUEST", "Missing id or method") >>
            /\ conns' = conns
       ELSE /\ out' = << SendError(c, NewId, "INVALID_REQUEST", "First message must be connect") >>
            /\ conns' = Close(conns, c, 1008)
    /\ responses' = Tally(Append(responses, 0), out')
    /\ UNCHANGED <<config, stopped, now, connCounter, handshakeTimeouts, clients,
                   presence, stateVersion, globalSeq, runVars, storeVars, junk>>

\* An absent (undefined) field of the connect params.
Undefined == -1

\* The connect params a client sends: client.id and client.version present or
\* not, minProtocol and maxProtocol, auth.token and auth.password ("" = absent).
ConnectParams ==
    [client : BOOLEAN, minProtocol : {Undefined, 3, 4}, maxProtocol : {Undefined, 3},
     token : {"", "secret", "bad"}, password : {"", "pass"}]

\* A variant of handleConnect's checks that skips the password; C9 must
\* notice it.
VerdictWithoutPassword(p) ==
    LET min == IF p.minProtocol = Undefined THEN 1 ELSE p.minProtocol
        max == IF p.maxProtocol = Undefined THEN 1 ELSE p.maxProtocol
    IN IF ~p.client THEN "Missing client.id or client.version"
       ELSE IF PROTOCOL_VERSION < min \/ PROTOCOL_VERSION > max THEN "Protocol mismatch"
       ELSE IF config.authToken # "" /\ p.token # config.authToken
            THEN "Authentication failed"
       ELSE "ok"

\* handleConnect's checks: "ok", or the message of the error it answers with.
ConnectVerdict(p) ==
    LET min == IF p.minProtocol = Undefined THEN 1 ELSE p.minProtocol
        max == IF p.maxProtocol = Undefined THEN 1 ELSE p.maxProtocol
    IN IF ~p.client THEN "Missing client.id or client.version"
       ELSE IF PROTOCOL_VERSION < min \/ PROTOCOL_VERSION > max THEN "Protocol mismatch"
       ELSE IF config.authToken # "" /\ p.token # config.authToken
            THEN "Authentication failed"
       ELSE IF config.authToken = "" /\ config.authPassword # ""
               /\ p.password # config.authPassword
            THEN "Authentication failed"
       ELSE "ok"

AuthMode ==
    IF config.authToken # "" THEN "token"
    ELSE IF config.authPassword # "" THEN "password" ELSE "none"

\* handleMessage on socket c before it has authenticated, for a connect
\* request: handleConnect.
RecvConnect(c, p) ==
    /\ conns[c].st = "open" /\ ~conns[c].authenticated
    /\ Len(responses) < MaxReqs
    /\ inbound' = Request(c, "connect", p)
    /\ handshakeTimeouts' = handshakeTimeouts \ {c}
    /\ IF ConnectVerdict(p) = "ok"
       THEN /\ conns' = [conns EXCEPT ![c].authenticated = TRUE]
            /\ clients' = clients \cup {c}
            /\ presence' = Append(presence, c)
            /\ stateVersion' = [stateVersion EXCEPT !.presence = @ + 1]
            /\ globalSeq' = globalSeq + 1
            /\ out' = << SendResponse(c, NewId,
                            [type |-> "hello-ok", protocol |-> PROTOCOL_VERSION,
                             connId |-> c, presence |-> presence',
                             stateVersion |-> stateVersion', authMode |-> AuthMode]),
                         PresenceEvent(presence', stateVersion', globalSeq', clients') >>
       ELSE /\ conns' = Close(conns, c, 1008)
            /\ out' = << SendError(c, NewId, "INVALID_REQUEST", ConnectVerdict(p)) >>
            /\ UNCHANGED <<clients, presence, stateVersion, globalSeq>>
    /\ responses' = Tally(Append(responses, 0), out')
    /\ UNCHANGED <<config, stopped, now, connCounter, runVars, storeVars, junk>>

\* Socket c can be served a request by a method handler.
Serving(c) == conns[c].st = "open" /\ conns[c].authenticated /\ Len(responses) < MaxReqs

\* handleMessage for a request that changes no state: an unknown method, a
\* request without a method, a stub or a read-only method.
RecvPlain(c, method) ==
    /\ Serving(c)
    /\ inbound' = Request(c, method, [none |-> TRUE])
    /\ out' = << CASE method = "" ->
                        SendError(c, NewId, "INVALID_REQUEST", "Missing id or method")
                   [] method \in {"connect", "nope"} ->
                        SendError(c, NewId, "INVALID_REQUEST", "Unknown method")
                   [] OTHER -> SendResponse(c, NewId, [method |-> method]) >>
    /\ responses' = Tally(Append(responses, 0), out')
    /\ UNCHANGED <<config, stopped, now, connVars, globalSeq, runVars, storeVars, junk>>

\* ------------------------------------------------------------ idempotency

\* isDuplicateKey's answer.
IsDuplicateKey(key) ==
    \E i \in 1..Len(idempotencyKeys) :
        idempotencyKeys[i].key = key /\ ~(now - idempotencyKeys[i].ts > DedupeTtl)

\* A variant of recordIdempotencyKey that never evicts; C38 must notice it.
RecordWithoutEviction(key) ==
    Append(SelectSeq(idempotencyKeys, LAMBDA e : e.key # key), [key |-> key, ts |-> now])

\* recordIdempotencyKey, after isDuplicateKey answered false (and so deleted
\* the key's expired entry, if it had one).
RecordIdempotencyKey(key) ==
    LET k1 == SelectSeq(idempotencyKeys, LAMBDA e : e.key # key)
        k2 == IF Len(k1) >= DedupeMaxKeys THEN Tail(k1) ELSE k1
    IN Append(k2, [key |-> key, ts |-> now])

\* The dedupe cleanup interval fires.
DedupeCleanup ==
    /\ ~stopped
    /\ \E i \in 1..Len(idempotencyKeys) : now - idempotencyKeys[i].ts > DedupeTtl
    /\ idempotencyKeys' = SelectSeq(idempotencyKeys, LAMBDA e : ~(now - e.ts > DedupeTtl))
    /\ inbound' = NoFrame
    /\ out' = <<>>
    /\ UNCHANGED <<config, stopped, now, connVars, globalSeq, runVars, chatHistory,
                   sessionMeta, responses, junk>>

\* Time passes.
Tick ==
    /\ now < MaxTime
    /\ now' = now + 1
    /\ inbound' = NoFrame
    /\ out' = <<>>
    /\ UNCHANGED <<config, stopped, connVars, globalSeq, runVars, storeVars, responses, junk>>

\* ------------------------------------------------------- starting a run

UserEntry(message) ==
    [role |-> "user", message |-> message, text |-> <<>>, tools |-> 0, stopReason |-> ""]

\* The context in which a run just created starts executing; `sent' holds what
\* the handler has sent before it calls executeRun.
NewCtx(run, hist, meta, sent) ==
    [run |-> run, task |-> Idle, hist |-> hist, meta |-> meta, gseq |-> globalSeq,
     ev |-> <<>>, sent |-> sent]

\* The state after the step that created the run of context x.
Created(x) ==
    /\ runs' = Append(runs, x.run)
    /\ task' = Append(task, x.task)
    /\ events' = Append(events, x.ev)
    /\ chatHistory' = x.hist
    /\ sessionMeta' = x.meta
    /\ globalSeq' = x.gseq
    /\ out' = x.sent

\* The state after a step of the task of run r that ended in context x.
Resumed(r, x) ==
    /\ runs' = [runs EXCEPT ![r] = x.run]
    /\ task' = [task EXCEPT ![r] = x.task]
    /\ events' = [events EXCEPT ![r] = @ \o x.ev]
    /\ chatHistory' = x.hist
    /\ sessionMeta' = x.meta
    /\ globalSeq' = x.gseq
    /\ out' = x.sent
    /\ responses' = Tally(responses, x.sent)
    /\ inbound' = NoFrame
    /\ UNCHANGED <<config, stopped, now, connVars, idempotencyKeys, junk>>

\* The state after a handler that only answers with an error.
Rejected(c, message) ==
    /\ out' = << SendError(c, NewId, "INVALID_REQUEST", message) >>
    /\ responses' = Tally(Append(responses, 0), out')
    /\ UNCHANGED <<config, stopped, now, connVars, globalSeq, runVars, storeVars, junk>>

\* chat.send params ("" = absent).
ChatSendParams ==
    [sessionKey : {"main"}, message : Messages, idempotencyKey : IdemKeys]
    \cup {[sessionKey |-> "", message |-> "hello", idempotencyKey |-> "k1"],
          [sessionKey |-> "main", message |-> "", idempotencyKey |-> "k1"],
          [sessionKey |-> "main", message |-> "hello", idempotencyKey |-> ""]}

\* handleChatSend.
ChatSend(c, p) ==
    /\ Serving(c)
    /\ inbound' = Request(c, "chat.send", p)
    /\ IF p.sessionKey = "" \/ p.message = "" \/ p.idempotencyKey = ""
       THEN Rejected(c, "Missing sessionKey, message, or idempotencyKey")
       ELSE IF IsDuplicateKey(p.idempotencyKey)
       THEN Rejected(c, "Duplicate idempotency key")
       ELSE /\ Len(runs) < MaxRuns
            /\ LET run == CreateRun(p.sessionKey, p.message)
                   ack == SendResponse(c, NewId, [runId |-> run.runId,
                                                  sessionKey |-> p.sessionKey])
                   x0 == NewCtx(run, chatHistory, sessionMeta \cup {p.sessionKey}, <<ack>>)
               IN Created(ExecuteRun(AppendHistory(x0, p.sessionKey, UserEntry(p.message))))
            /\ idempotencyKeys' = RecordIdempotencyKey(p.idempotencyKey)
            /\ responses' = Tally(Append(responses, 0), out')
            /\ UNCHANGED <<config, stopped, now, connVars, junk>>

\* agent params ("" = absent).
AgentParams ==
    [sessionKey : {"", "main"}, message : Messages, idempotencyKey : IdemKeys]
    \cup {[sessionKey |-> "", message |-> "", idempotencyKey |-> "k1"],
          [sessionKey |-> "", message |-> "hello", idempotencyKey |-> ""]}

\* handleAgent.
Agent(c, p) ==
    /\ Serving(c)
    /\ inbound' = Request(c, "agent", p)
    /\ IF p.message = "" \/ p.idempotencyKey = ""
       THEN Rejected(c, "Missing message or idempotencyKey")
       ELSE IF IsDuplicateKey(p.idempotencyKey)
       THEN Rejected(c, "Duplicate idempotency key")
       ELSE /\ Len(runs) < MaxRuns
            /\ LET sessionKey == IF p.sessionKey = "" THEN "default" ELSE p.sessionKey
                   run == CreateRun(sessionKey, p.message)
                   ack == SendResponse(c, NewId, [runId |-> run.runId])
               IN Created(ExecuteRun(NewCtx(run, chatHistory,
                                            sessionMeta \cup {sessionKey}, <<ack>>)))
            /\ idempotencyKeys' = RecordIdempotencyKey(p.idempotencyKey)
            /\ responses' = Tally(Append(responses, 0), out')
            /\ UNCHANGED <<config, stopped, now, connVars, junk>>

\* chat.abort params (sessionKey "" and runId 0 = absent).
ChatAbortParams == [sessionKey : {"", "main", "default"}, runId : 0..MaxRuns]

\* The run handleChatAbort looks up (0 = none): the run of the given id, else
\* the latest running run of the session.
AbortTarget(p) ==
    IF p.runId # 0
    THEN IF p.runId \in DOMAIN runs THEN p.runId ELSE 0
    ELSE LET rs == {r \in DOMAIN runs :
                      runs[r].sessionKey = p.sessionKey /\ runs[r].state = "running"}
         IN IF rs = {} THEN 0 ELSE CHOOSE r \in rs : \A q \in rs : q <= r

\* A variant of the cancellation that never fires the signal; C29 must
\* notice it.
AbortStateOnly(run) == [run EXCEPT !.state = "aborted"]

\* The cancellation of a run: abortController.abort(), state = "aborted".
Abort(run) == [run EXCEPT !.aborted = TRUE, !.state = "aborted"]

\* handleChatAbort.
ChatAbort(c, p) ==
    /\ Serving(c)
    /\ inbound' = Request(c, "chat.abort", p)
    /\ IF p.sessionKey = "" THEN Rejected(c, "Missing sessionKey")
       ELSE IF AbortTarget(p) = 0 \/ runs[AbortTarget(p)].state # "running"
       THEN Rejected(c, "No active run to abort")
       ELSE /\ runs' = [runs EXCEPT ![AbortTarget(p)] = Abort(@)]
            /\ out' = << SendResponse(c, NewId, [runId |-> AbortTarget(p),
                                                 aborted |-> TRUE]) >>
            /\ responses' = Tally(Append(responses, 0), out')
            /\ UNCHANGED <<config, stopped, now, connVars, globalSeq, task, events,
                           storeVars, junk>>

\* agent.wait params (runId 0 = absent; MaxRuns + 1 is never a run's id).
AgentWaitParams == [runId : 0..(MaxRuns + 1)]

\* The entry handleAgentWait pushes on run.waitResolvers, with its timer.
Waiter(c, id) == [kind |-> "ws", conn |-> c, id |-> id, timer |-> "armed"]

\* The entry chatAndWait pushes: it has no timer.
HttpWaiter == [kind |-> "http", conn |-> 0, id |-> 0, timer |-> "none"]

\* What an agent.wait answers, and what finishRun hands to the waiters.
WaitResult(run) == [runId |-> run.runId, state |-> run.state, text |-> run.accumulatedText]

\* handleAgentWait.
AgentWait(c, p) ==
    /\ Serving(c)
    /\ inbound' = Request(c, "agent.wait", p)
    /\ IF p.runId = 0 THEN Rejected(c, "Missing runId")
       ELSE IF p.runId \notin DOMAIN runs THEN Rejected(c, "Unknown runId")
       ELSE /\ IF runs[p.runId].state # "running"
               THEN /\ out' = << SendResponse(c, NewId, WaitResult(runs[p.runId])) >>
                    /\ runs' = runs
               ELSE /\ out' = <<>>
                    /\ runs' = [runs EXCEPT ![p.runId].waitResolvers =
                                                Append(@, Waiter(c, NewId))]
            /\ responses' = Tally(Append(responses, 0), out')
            /\ UNCHANGED <<config, stopped, now, connVars, globalSeq, task, events,
                           storeVars, junk>>

\* A variant of the timeout callback that drops the other waiters; C8 must
\* notice it.
TimeoutDropsWaiters(run, i) ==
    [run EXCEPT !.waitResolvers = <<[@[i] EXCEPT !.timer = "fired"]>>]

\* The timeout callback of waiter i of a run: what it does to the run.
OnWaitTimeout(run, i) == [run EXCEPT !.waitResolvers[i].timer = "fired"]

\* The timer of waiter i of run r fires.
WaitTimeout(r, i) ==
    /\ r \in DOMAIN runs
    /\ i \in DOMAIN runs[r].waitResolvers
    /\ runs[r].waitResolvers[i].timer = "armed"
    /\ out' = << SendError(runs[r].waitResolvers[i].conn, runs[r].waitResolvers[i].id,
                           "AGENT_TIMEOUT", "Wait timed out") >>
    /\ runs' = [runs EXCEPT ![r] = OnWaitTimeout(@, i)]
    /\ responses' = Tally(responses, out')
    /\ inbound' = NoFrame
    /\ UNCHANGED <<config, stopped, now, connVars, globalSeq, task, events, storeVars, junk>>

\* ------------------------------------------------------ the tasks resume

\* A Bun.sleep of the demo adapter is over.
DemoResume(r) ==
    /\ r \in DOMAIN runs
    /\ \/ task[r].pc = "d.think" /\ Resumed(r, StreamThinking(Ctx(r), task[r].i))
       \/ task[r].pc = "d.tool" /\ Resumed(r, ResumeDemoTool(Ctx(r)))
       \/ task[r].pc = "d.text" /\ \E due \in BOOLEAN :
                                       Resumed(r, StreamText(Ctx(r), task[r].i, due))

\* The backend answers the adapter's chat request, or the request fails.
ChatResume(r, outcome) ==
    /\ r \in DOMAIN runs
    /\ task[r].pc = "x.chat"
    /\ Resumed(r, ResumeChat(Ctx(r), outcome))

\* What a read of the backend's stream yields: a chunk (of text, of thinking,
\* a call of an MCP tool, a call of a mock tool), its end, or a failure.
Chunks == {"text", "thinking", "mcp", "mock"}

ReadResume(r, chunk, due) ==
    /\ r \in DOMAIN runs
    /\ task[r].pc = "x.read"
    /\ chunk \in Chunks => task[r].chunks < MaxChunks
    /\ Resumed(r, ResumeRead(Ctx(r), chunk, due))

\* mcpManager.callTool returns.
McpResume(r) ==
    /\ r \in DOMAIN runs
    /\ task[r].pc = "x.mcp"
    /\ Resumed(r, ResumeMcp(Ctx(r)))

\* ------------------------------------------------------------ HTTP surface

\* A variant of handleHttpChatCompletions without its auth check; C31 must
\* notice it.
HttpChatOpen(bearer, system, message) ==
    /\ ~stopped
    /\ inbound' = [kind |-> "http", bearer |-> bearer, system |-> system,
                   message |-> message]
    /\ Len(runs) < MaxRuns
    /\ LET key == "main"
           run == [CreateRun(key, message) EXCEPT !.waitResolvers = <<HttpWaiter>>]
           x0 == NewCtx(run, chatHistory, sessionMeta, <<>>)
           x1 == IF system THEN AppendHistory(x0, key, UserEntry("[System]")) ELSE x0
       IN Created(ExecuteRun(AppendHistory(x1, key, UserEntry(message))))
    /\ UNCHANGED <<config, stopped, now, connVars, idempotencyKeys, responses, junk>>

\* POST /v1/chat/completions with or without the right bearer credential, a
\* system message or none, and a user message: handleHttpChatCompletions up
\* to its await of chatAndWait.
HttpChat(bearer, system, message) ==
    /\ ~stopped
    /\ inbound' = [kind |-> "http", bearer |-> bearer, system |-> system,
                   message |-> message]
    /\ IF config.authToken # "" /\ ~bearer
       THEN /\ out' = << [type |-> "http", to |-> {}, payload |-> [status |-> 401]] >>
            /\ UNCHANGED <<globalSeq, runVars, storeVars>>
       ELSE /\ Len(runs) < MaxRuns
            /\ LET key == "main"
                   run == [CreateRun(key, message) EXCEPT !.waitResolvers = <<HttpWaiter>>]
                   x0 == NewCtx(run, chatHistory, sessionMeta, <<>>)
                   x1 == IF system THEN AppendHistory(x0, key, UserEntry("[System]")) ELSE x0
               IN Created(ExecuteRun(AppendHistory(x1, key, UserEntry(message))))
            /\ UNCHANGED idempotencyKeys
    /\ UNCHANGED <<config, stopped, now, connVars, responses, junk>>

\* ------------------------------------------------------------------- stop

\* A variant of stop() that closes the sockets without the shutdown event;
\* C30 must notice it.
StopUnannounced ==
    /\ ~stopped
    /\ stopped' = TRUE
    /\ out' = <<>>
    /\ handshakeTimeouts' = {}
    /\ runs' = [r \in DOMAIN runs |-> IF runs[r].state = "running"
                                      THEN [runs[r] EXCEPT !.aborted = TRUE,
                                                           !.state = "aborted"]
                                      ELSE runs[r]]
    /\ conns' = [c \in Conns |-> IF conns[c].st = "open"
                                 THEN [conns[c] EXCEPT !.st = "closing"] ELSE conns[c]]
    /\ inbound' = NoFrame
    /\ UNCHANGED <<config, now, connCounter, clients, presence, stateVersion, globalSeq,
                   task, events, storeVars, responses, junk>>

\* stop(): the shutdown event, the timers, the running runs, the sockets.
Stop ==
    /\ ~stopped
    /\ stopped' = TRUE
    /\ globalSeq' = globalSeq + 1
    /\ out' = << [type |-> "event", to |-> clients, seq |-> globalSeq',
                  payload |-> [event |-> "shutdown", reason |-> "server_stop"]] >>
    /\ handshakeTimeouts' = {}
    /\ runs' = [r \in DOMAIN runs |-> IF runs[r].state = "running" THEN Abort(runs[r])
                                      ELSE runs[r]]
    /\ conns' = [c \in Conns |-> IF conns[c].st = "open"
                                 THEN [conns[c] EXCEPT !.st = "closing"] ELSE conns[c]]
    /\ inbound' = NoFrame
    /\ UNCHANGED <<config, now, connCounter, clients, presence, stateVersion, task, events,
                   storeVars, responses, junk>>

\* ---------------------------------------------------------- session store

\* history.slice(-n) for n >= 0: the entries from index Len(h) - n on, the
\* index taken as 0 when it is negative; slice(-0) is slice(0), the whole
\* history.
LastN(h, n) ==
    LET start == IF n = 0 \/ Len(h) <= n THEN 0 ELSE Len(h) - n
    IN SubSeq(h, start + 1, Len(h))

\* chat.history params (sessionKey "" and limit Undefined = absent).
ChatHistoryParams == [sessionKey : {"", "main"}, limit : {Undefined, 0, 1, 2}]

\* handleChatHistory (no greeting is configured).
ChatHistory(c, p) ==
    /\ Serving(c)
    /\ inbound' = Request(c, "chat.history", p)
    /\ IF p.sessionKey = "" THEN Rejected(c, "Missing sessionKey")
       ELSE /\ out' = << SendResponse(c, NewId,
                           [sessionKey |-> p.sessionKey,
                            messages |-> LastN(chatHistory[p.sessionKey],
                                               IF p.limit = Undefined THEN 50
                                               ELSE IF p.limit < 1000 THEN p.limit
                                               ELSE 1000)]) >>
            /\ responses' = Tally(Append(responses, 0), out')
            /\ UNCHANGED <<config, stopped, now, connVars, globalSeq, runVars, storeVars, junk>>

\* The state after a handler that answers once and leaves the runs alone.
Answered(c, payload) ==
    /\ out' = << SendResponse(c, NewId, payload) >>
    /\ responses' = Tally(Append(responses, 0), out')
    /\ UNCHANGED <<config, stopped, now, connVars, globalSeq, runVars, junk>>

\* handleChatInject.
ChatInject(c, key, message) ==
    /\ Serving(c)
    /\ inbound' = Request(c, "chat.inject", [sessionKey |-> key, message |-> message])
    /\ IF key = "" \/ message = "" THEN Rejected(c, "Missing sessionKey or message")
       ELSE /\ chatHistory' = [chatHistory EXCEPT ![key] = Append(@, UserEntry(message))]
            /\ sessionMeta' = sessionMeta \cup {key}
            /\ UNCHANGED idempotencyKeys
            /\ Answered(c, [sessionKey |-> key, injected |-> TRUE])

\* handleSessionsList.
SessionsList(c) ==
    /\ Serving(c)
    /\ inbound' = Request(c, "sessions.list", [none |-> TRUE])
    /\ UNCHANGED storeVars
    /\ Answered(c, [sessions |-> [k \in sessionMeta \cup {q \in Sessions : chatHistory[q] # <<>>}
                                    |-> Len(chatHistory[k])]])

\* handleSessionsPatch (the label stays within its length limit).
SessionsPatch(c, key) ==
    /\ Serving(c)
    /\ inbound' = Request(c, "sessions.patch", [key |-> key])
    /\ IF key = "" THEN Rejected(c, "Missing key")
       ELSE /\ sessionMeta' = sessionMeta \cup {key}
            /\ UNCHANGED <<chatHistory, idempotencyKeys>>
            /\ Answered(c, [key |-> key, patched |-> TRUE])

\* handleSessionsReset (key "" = absent: the session is "main").
SessionsReset(c, key) ==
    /\ Serving(c)
    /\ inbound' = Request(c, "sessions.reset", [key |-> key])
    /\ LET sessionKey == IF key = "" THEN "main" ELSE key IN
       /\ chatHistory' = [chatHistory EXCEPT ![sessionKey] = <<>>]
       /\ UNCHANGED <<sessionMeta, idempotencyKeys>>
       /\ Answered(c, [sessionKey |-> sessionKey, reset |-> TRUE])

\* A variant of handleSessionsDelete that drops the history and keeps the
\* metadata; C33 must notice it.
SessionsDeleteHistory(c, key) ==
    /\ Serving(c)
    /\ inbound' = Request(c, "sessions.delete", [key |-> key])
    /\ IF key = "" THEN Rejected(c, "Missing key")
       ELSE /\ chatHistory' = [chatHistory EXCEPT ![key] = <<>>]
            /\ UNCHANGED <<sessionMeta, idempotencyKeys>>
            /\ Answered(c, [key |-> key, deleted |-> TRUE])

\* handleSessionsDelete.
SessionsDelete(c, key) ==
    /\ Serving(c)
    /\ inbound' = Request(c, "sessions.delete", [key |-> key])
    /\ IF key = "" THEN Rejected(c, "Missing key")
       ELSE /\ chatHistory' = [chatHistory EXCEPT ![key] = <<>>]
            /\ sessionMeta' = sessionMeta \ {key}
            /\ UNCHANGED idempotencyKeys
            /\ Answered(c, [key |-> key, deleted |-> TRUE])

\* send params ("" = absent).
SendParams ==
    [to : {"bob"}, message : {"hello"}, idempotencyKey : IdemKeys]
    \cup {[to |-> "", message |-> "hello", idempotencyKey |-> "k1"]}

\* handleSend.
Send(c, p) ==
    /\ Serving(c)
    /\ inbound' = Request(c, "send", p)
    /\ IF p.to = "" \/ p.message = "" \/ p.idempotencyKey = ""
       THEN Rejected(c, "Missing to, message, or idempotencyKey")
       ELSE IF IsDuplicateKey(p.idempotencyKey)
       THEN Rejected(c, "Duplicate idempotency key")
       ELSE /\ idempotencyKeys' = RecordIdempotencyKey(p.idempotencyKey)
            /\ UNCHANGED <<chatHistory, sessionMeta>>
            /\ Answered(c, [sent |-> TRUE, to |-> p.to])

\* ------------------------------------------------------------ the program

Next ==
    \/ HandleOpen
    \/ \E c \in Conns : HandshakeTimeout(c)
    \/ \E c \in Conns : HandleClose(c)
    \/ \E c \in Conns, shape \in JunkShapes : RecvJunk(c, shape)
    \/ \E c \in Conns, m \in {"chat.send", "health", ""} : RecvBeforeConnect(c, m)
    \/ \E c \in Conns, p \in ConnectParams : RecvConnect(c, p)
    \/ \E c \in Conns, m \in PlainMethods : RecvPlain(c, m)
    \/ \E c \in Conns, p \in ChatSendParams : ChatSend(c, p)
    \/ \E c \in Conns, p \in AgentParams : Agent(c, p)
    \/ \E c \in Conns, p \in ChatAbortParams : ChatAbort(c, p)
    \/ \E c \in Conns, p \in AgentWaitParams : AgentWait(c, p)
    \/ \E r \in RunIds, i \in 1..MaxReqs : WaitTimeout(r, i)
    \/ \E r \in RunIds : DemoResume(r)
    \/ \E r \in RunIds, outcome \in {"ok", "error"} : ChatResume(r, outcome)
    \/ \E r \in RunIds, chunk \in Chunks \cup {"done", "error"}, due \in BOOLEAN :
          ReadResume(r, chunk, due)
    \/ \E r \in RunIds : McpResume(r)
    \/ \E bearer, system \in BOOLEAN, m \in {"hello", "/new"} : HttpChat(bearer, system, m)
    \/ Stop
    \/ \E c \in Conns, p \in ChatHistoryParams : ChatHistory(c, p)
    \/ \E c \in Conns, key \in {"", "main"}, m \in {"", "note"} : ChatInject(c, key, m)
    \/ \E c \in Conns : SessionsList(c)
    \/ \E c \in Conns, key \in {"", "main"} : SessionsPatch(c, key)
    \/ \E c \in Conns, key \in {"", "default"} : SessionsReset(c, key)
    \/ \E c \in Conns, key \in {"", "main"} : SessionsDelete(c, key)
    \/ \E c \in Conns, p \in SendParams : Send(c, p)
    \/ DedupeCleanup
    \/ Tick

Spec == Init /\ [][Next]_vars

\* ------------------------------------------------- the handshake, by itself
\* The connection state machine with every shape of connect params, and no run.

HandshakeNext ==
    \/ HandleOpen
    \/ \E c \in Conns : HandshakeTimeout(c)
    \/ \E c \in Conns : HandleClose(c)
    \/ \E c \in Conns, shape \in JunkShapes : RecvJunk(c, shape)
    \/ \E c \in Conns, m \in {"chat.send", "health", ""} : RecvBeforeConnect(c, m)
    \/ \E c \in Conns, p \in ConnectParams : RecvConnect(c, p)
    \/ \E c \in Conns, m \in PlainMethods : RecvPlain(c, m)
    \/ Stop

HandshakeSpec == Init /\ [][HandshakeNext]_vars

\* ------------------------------------------------------ the runs, by themselves
\* A server without credentials, clients that connect properly, and the
\* requests and callbacks that create, watch, cancel and advance runs.

GoodConnect ==
    [client |-> TRUE, minProtocol |-> 3, maxProtocol |-> 3, token |-> "", password |-> ""]

\* The requests of these clients: well-formed, about the session "main" (agent:
\* about the default session).
RunSends == [sessionKey : {"main"}, message : {"/new", "weather", "think"},
             idempotencyKey : {"k1"}]
RunAgents == [sessionKey : {""}, message : {"hello"}, idempotencyKey : {"k2"}]
RunAborts == [sessionKey : {"main"}, runId : 0..MaxRuns]
RunWaits == [runId : 1..MaxRuns]

RunInit == Init /\ config.authToken = "" /\ config.authPassword = ""

RunNext ==
    \/ HandleOpen
    \/ \E c \in Conns : HandleClose(c)
    \/ \E c \in Conns : RecvConnect(c, GoodConnect)
    \/ \E c \in Conns, p \in RunSends : ChatSend(c, p)
    \/ \E c \in Conns, p \in RunAgents : Agent(c, p)
    \/ \E c \in Conns, p \in RunAborts : ChatAbort(c, p)
    \/ \E c \in Conns, p \in RunWaits : AgentWait(c, p)
    \/ \E r \in RunIds, i \in 1..MaxReqs : WaitTimeout(r, i)
    \/ \E r \in RunIds : DemoResume(r)
    \/ \E r \in RunIds, outcome \in {"ok", "error"} : ChatResume(r, outcome)
    \/ \E r \in RunIds, chunk \in Chunks \cup {"done", "error"}, due \in BOOLEAN :
          ReadResume(r, chunk, due)
    \/ \E r \in RunIds : McpResume(r)
    \/ HttpChat(TRUE, FALSE, "hello")
    \/ Stop

RunSpec == RunInit /\ [][RunNext]_vars

\* ------------------------------------------ the stores, by themselves
\* One client of a server without credentials, the requests that read and
\* write the session histories and the idempotency cache, the run tasks, and
\* the clock.

StoreSends == [sessionKey : {"main"}, message : {"/new", "/help", "/foo", "hello"},
               idempotencyKey : IdemKeys]
StoreAgents == [sessionKey : {""}, message : {"hello", "/foo"}, idempotencyKey : {"k2"}]
StoreAborts == [sessionKey : {"main"}, runId : 1..MaxRuns]

StoreNext ==
    \/ connCounter = 0 /\ HandleOpen
    \/ \E c \in Conns : RecvConnect(c, GoodConnect)
    \/ \E c \in Conns, p \in StoreSends : ChatSend(c, p)
    \/ \E c \in Conns, p \in StoreAgents : Agent(c, p)
    \/ \E c \in Conns, p \in SendParams : Send(c, p)
    \/ \E c \in Conns, p \in StoreAborts : ChatAbort(c, p)
    \/ \E c \in Conns, p \in ChatHistoryParams : ChatHistory(c, p)
    \/ \E c \in Conns : ChatInject(c, "main", "note")
    \/ \E c \in Conns, key \in {"", "default"} : SessionsReset(c, key)
    \/ \E c \in Conns : SessionsDelete(c, "main")
    \/ \E r \in RunIds : DemoResume(r)
    \/ \E r \in RunIds, outcome \in {"ok", "error"} : ChatResume(r, outcome)
    \/ \E r \in RunIds, chunk \in Chunks \cup {"done", "error"}, due \in BOOLEAN :
          ReadResume(r, chunk, due)
    \/ \E r \in RunIds : McpResume(r)
    \/ DedupeCleanup
    \/ Tick

StoreSpec == RunInit /\ [][StoreNext]_vars

\* ------------------------------------------------- the tool loop, by itself
\* One client of a server with the Ollama (or OpenAI-compatible) adapter, one
\* run, and a backend that may ask for a tool on every round of the loop, up
\* to the adapter's cap.

\* A read of the backend's stream, as in ReadResume, for streams that carry at
\* most one tool call per round and text in the first MaxChunks rounds only.
LoopRead(r, chunk, due) ==
    /\ r \in DOMAIN runs
    /\ task[r].pc = "x.read"
    /\ chunk = "text" => task[r].text = <<>> /\ task[r].iter <= MaxChunks
    /\ chunk \in {"mcp", "mock"} => task[r].calls = <<>>
    /\ Resumed(r, ResumeRead(Ctx(r), chunk, due))

LoopSends == [sessionKey : {"main"}, message : {"hello"}, idempotencyKey : {"k1"}]

LoopInit == RunInit /\ config.handler = "external"

LoopNext ==
    \/ connCounter = 0 /\ HandleOpen
    \/ \E c \in Conns : HandleClose(c)
    \/ \E c \in Conns : RecvConnect(c, GoodConnect)
    \/ \E c \in Conns, p \in LoopSends : ChatSend(c, p)
    \/ \E c \in Conns, p \in StoreAborts : ChatAbort(c, p)
    \/ \E c \in Conns, p \in RunWaits : AgentWait(c, p)
    \/ \E r \in RunIds, outcome \in {"ok", "error"} : ChatResume(r, outcome)
    \/ \E r \in RunIds, chunk \in {"text", "mcp", "mock", "done", "error"}, due \in BOOLEAN :
          LoopRead(r, chunk, due)
    \/ \E r \in RunIds : McpResume(r)

LoopSpec == LoopInit /\ [][LoopNext]_vars

\* ------------------------------------------- the HTTP surface, by itself
\* A server with or without a token, one WebSocket client, and the requests
\* POST /v1/chat/completions starts: their runs, the client's chat.abort, and
\* stop().

\* The connect params of a client that knows the token, or sends none.
HttpConnects ==
    [client : {TRUE}, minProtocol : {3}, maxProtocol : {3}, token : {"", "secret"},
     password : {""}]

HttpInit == Init /\ config.authPassword = ""

HttpNext ==
    \/ connCounter = 0 /\ HandleOpen
    \/ \E c \in Conns, p \in HttpConnects : RecvConnect(c, p)
    \/ \E bearer, system \in BOOLEAN, m \in {"hello", "/new"} : HttpChat(bearer, system, m)
    \/ \E c \in Conns, p \in StoreAborts : ChatAbort(c, p)
    \/ \E r \in RunIds : DemoResume(r)
    \/ \E r \in RunIds, outcome \in {"ok", "error"} : ChatResume(r, outcome)
    \/ \E r \in RunIds, chunk \in Chunks \cup {"done", "error"}, due \in BOOLEAN :
          ReadResume(r, chunk, due)
    \/ \E r \in RunIds : McpResume(r)
    \/ Stop

HttpSpec == HttpInit /\ [][HttpNext]_vars

\* The task of run r resumes: the timer or the promise it awaits settles.
Advance(r) ==
    \/ DemoResume(r)
    \/ \E outcome \in {"ok", "error"} : ChatResume(r, outcome)
    \/ \E chunk \in Chunks \cup {"done", "error"}, due \in BOOLEAN : ReadResume(r, chunk, due)
    \/ McpResume(r)

\* The same, with the event loop's guarantee that a task whose await can
\* settle is resumed.
HttpLiveSpec == HttpInit /\ [][HttpNext]_vars /\ \A r \in RunIds : WF_vars(Advance(r))

\* ------------------------------------- runs that outlive their socket
\* Two clients of a server without credentials.  Only the first connection
\* sends chat.send, so it is the originating socket of every run; either
\* connection may close at any time.

\* The connection whose requests start the runs.
Owner == 1

CloseNext ==
    \/ HandleOpen
    \/ \E c \in Conns : HandleClose(c)
    \/ \E c \in Conns : RecvConnect(c, GoodConnect)
    \/ \E p \in RunSends : ChatSend(Owner, p)
    \/ \E r \in RunIds : DemoResume(r)
    \/ \E r \in RunIds, outcome \in {"ok", "error"} : ChatResume(r, outcome)
    \/ \E r \in RunIds, chunk \in Chunks \cup {"done", "error"}, due \in BOOLEAN :
          ReadResume(r, chunk, due)
    \/ \E r \in RunIds : McpResume(r)

CloseSpec == RunInit /\ [][CloseNext]_vars

\* ---------------------------------------- the idempotency cache, by itself
\* One client that sends `send' requests under more keys than the cache
\* holds, the clock, and the cleanup timer.

CacheSends == [to : {"bob"}, message : {"hello"}, idempotencyKey : {"k1", "k2", "k3"}]

CacheNext ==
    \/ connCounter = 0 /\ HandleOpen
    \/ \E c \in Conns : RecvConnect(c, GoodConnect)
    \/ \E c \in Conns, p \in CacheSends : Send(c, p)
    \/ DedupeCleanup
    \/ Tick

CacheSpec == RunInit /\ [][CacheNext]_vars

\* ================================================================ properties

\* How many events of a run's log pass a test.
Count(log, Test(_)) == Cardinality({i \in DOMAIN log : Test(log[i])})

IsStart(e) == e.event = "agent" /\ e.kind = "lifecycle.start"
IsEnd(e) == e.event = "agent" /\ e.kind = "lifecycle.end"
IsError(e) == e.event = "agent" /\ e.kind = "lifecycle.error"
IsChatDelta(e) == e.event = "chat" /\ e.kind = "delta"
IsChatFinal(e) == e.event = "chat" /\ e.kind = "final"
IsChatError(e) == e.event = "chat" /\ e.kind = "error"

\* The run has made its terminal transition.
Ended(r) == runs[r].state \in {"completed", "error", "aborted"}

\* The run's task has returned: nothing of the run is left to execute.
Returned(r) == task[r].pc = "done"

\* C1 (as stated): every request received on an authenticated connection is
\* answered by exactly one response frame carrying its id, whatever the
\* interleaving; here its safety half, no request is answered twice.  The code
\* breaks it: the timeout callback of agent.wait answers AGENT_TIMEOUT and
\* leaves the waiter registered, and finishRun answers the same id again.
C1_AtMostOneResponse == \A id \in DOMAIN responses : responses[id] <= 1

\* C2: a run makes one terminal transition: once its state is completed, error
\* or aborted, no step changes it, and the only states are these and running.
C2_OneTerminalTransition ==
    [][\A r \in DOMAIN runs :
          /\ runs'[r].state \in {"running", "completed", "error", "aborted"}
          /\ Ended(r) => runs'[r].state = runs[r].state]_vars

\* C2's case: a run was cancelled while its adapter awaited, and the adapter
\* has since resumed and returned.
C2_Witness ==
    \E r \in DOMAIN runs :
        runs[r].aborted /\ runs[r].state = "aborted" /\ Returned(r) /\ Len(events[r]) >= 2

\* C3 (as stated): every run that has ended (on a server that has not been
\* stopped) emitted exactly one lifecycle start and exactly one terminal
\* lifecycle event (end or error).
C3_AsStated ==
    \A r \in DOMAIN runs :
        ~stopped /\ Ended(r) /\ Returned(r) =>
            /\ Count(events[r], IsStart) = 1
            /\ Count(events[r], IsEnd) + Count(events[r], IsError) = 1

\* C3 (amended): every run emits exactly one lifecycle start; it emits one
\* lifecycle end and no lifecycle error when it completes, one lifecycle error
\* and no lifecycle end when it fails, and no terminal lifecycle event while it
\* runs or when it is aborted.
C3_Lifecycle ==
    \A r \in DOMAIN runs :
        /\ Count(events[r], IsStart) = 1
        /\ Count(events[r], IsEnd) = (IF runs[r].state = "completed" THEN 1 ELSE 0)
        /\ Count(events[r], IsError) = (IF runs[r].state = "error" THEN 1 ELSE 0)

\* C3's case: an aborted run whose adapter has returned, with its start event
\* and without a terminal lifecycle event.
C3_Witness ==
    \E r \in DOMAIN runs :
        /\ runs[r].state = "aborted" /\ Returned(r)
        /\ Count(events[r], IsStart) = 1
        /\ Count(events[r], IsEnd) + Count(events[r], IsError) = 0

\* C4 (as stated): every run that has ended (on a server that has not been
\* stopped) emitted exactly one of chat.final and chat.error.
C4_AsStated ==
    \A r \in DOMAIN runs :
        ~stopped /\ Ended(r) /\ Returned(r) =>
            Count(events[r], IsChatFinal) + Count(events[r], IsChatError) = 1

\* C4 (amended): a run emits one chat.final and no chat.error when it
\* completes, one chat.error and no chat.final when it fails, and neither
\* while it runs or when it is aborted.
C4_ChatEnd ==
    \A r \in DOMAIN runs :
        /\ Count(events[r], IsChatFinal) = (IF runs[r].state = "completed" THEN 1 ELSE 0)
        /\ Count(events[r], IsChatError) = (IF runs[r].state = "error" THEN 1 ELSE 0)

\* C4's case: an aborted run whose adapter has returned, whose last chat event
\* is a delta.
C4_Witness ==
    \E r \in DOMAIN runs :
        /\ runs[r].state = "aborted" /\ Returned(r)
        /\ Count(events[r], IsChatDelta) >= 1
        /\ Count(events[r], IsChatFinal) + Count(events[r], IsChatError) = 0

\* C5 (as stated): once a run is terminal, no further agent or chat event is
\* emitted with its runId (the events finishRun emits belong to the terminal
\* transition itself; a server that has been stopped is left aside).  The
\* code breaks it after an abort: streamText emits its closing chat.delta, and
\* the Ollama and OpenAI-compatible adapters emit tool results (and the next
\* tool starts) when callTool returns.
C5_NoEventAfterTerminal ==
    [][\A r \in DOMAIN runs : ~stopped /\ Ended(r) => events'[r] = events[r]]_vars

\* C6: a run whose cancellation chat.abort has acknowledged (aborted: true)
\* has no chat.final event, at that moment or at any later one.
C6_NoFinalAfterAbort ==
    \A r \in DOMAIN runs : runs[r].aborted => Count(events[r], IsChatFinal) = 0

\* C6's case: chat.abort (the server has not been stopped) cancelled a run
\* that had begun to stream, and its adapter has since returned.
C6_Witness ==
    \E r \in DOMAIN runs :
        ~stopped /\ runs[r].aborted /\ Returned(r) /\ Count(events[r], IsChatDelta) >= 1

\* C7 (as stated): when a run has terminated (completed, error or aborted)
\* on a server that has not been stopped, every agent.wait waiter registered
\* on it has been resolved.  The code breaks it for aborted runs: chat.abort
\* sets the state and resolves nobody, and the adapter then returns without
\* finishRun.
C7_WaitersResolved ==
    \A r \in DOMAIN runs :
        ~stopped /\ Ended(r) /\ Returned(r) =>
            \A j \in DOMAIN runs[r].waitResolvers : runs[r].waitResolvers[j].kind # "ws"

\* The frames of a step that answer AGENT_TIMEOUT.
Timeouts(frames) ==
    {i \in DOMAIN frames : frames[i].type = "res" /\ frames[i].code = "AGENT_TIMEOUT"}

\* C8: a step in which an agent.wait times out sends that one AGENT_TIMEOUT
\* frame and nothing else, leaves every run's state, cancellation signal, text
\* and list of waiters as they were, and emits no event; and when a run
\* finishes, every agent.wait waiter registered on it, timed out or not, is
\* sent the terminal payload.
C8_TimeoutOnlyToCaller ==
    [][/\ Timeouts(out') # {} =>
            /\ Len(out') = 1
            /\ task' = task /\ events' = events
            /\ \A r \in DOMAIN runs :
                  /\ runs'[r].state = runs[r].state
                  /\ runs'[r].aborted = runs[r].aborted
                  /\ runs'[r].accumulatedText = runs[r].accumulatedText
                  /\ Len(runs'[r].waitResolvers) = Len(runs[r].waitResolvers)
                  /\ \A j \in DOMAIN runs[r].waitResolvers :
                        /\ runs'[r].waitResolvers[j].conn = runs[r].waitResolvers[j].conn
                        /\ runs'[r].waitResolvers[j].id = runs[r].waitResolvers[j].id
       /\ \A r \in DOMAIN runs :
            runs[r].state = "running" /\ runs'[r].state \in {"completed", "error"} =>
                \A j \in DOMAIN runs[r].waitResolvers :
                    runs[r].waitResolvers[j].kind = "ws" =>
                        \E k \in DOMAIN out' :
                            out'[k] = SendResponse(runs[r].waitResolvers[j].conn,
                                                   runs[r].waitResolvers[j].id,
                                                   WaitResult(runs'[r]))]_vars

\* C8's case: one waiter of a running run has just timed out while another
\* waiter of the same run is still waiting.
C8_Witness ==
    /\ Timeouts(out) # {}
    /\ \E r \in DOMAIN runs :
          /\ runs[r].state = "running"
          /\ \E i, j \in DOMAIN runs[r].waitResolvers :
                runs[r].waitResolvers[i].timer = "fired"
                /\ runs[r].waitResolvers[j].timer = "armed"

\* The step handles a frame of a connection that has not authenticated.
FirstFrame == inbound'.kind = "ws" /\ ~conns[inbound'.conn].authenticated

\* The step handles a connect request.
IsConnect(f) == f.kind = "ws" /\ f.shape = "req" /\ f.method = "connect"

\* The step answers the frame with one INVALID_REQUEST error, to its sender.
AnswersInvalid ==
    /\ Len(out') = 1
    /\ out'[1].type = "res" /\ ~out'[1].ok /\ out'[1].code = "INVALID_REQUEST"
    /\ out'[1].to = {inbound'.conn}

\* The step closes the frame's connection with the given code.
ClosesWith(code) ==
    /\ conns'[inbound'.conn].st = "closing"
    /\ conns'[inbound'.conn].closeCode = code

\* The connect params the server's mode admits: the client identifies itself,
\* protocol 3 lies in the range it offers (a bound it leaves out counts as 1),
\* and it presents the credential of the mode (the token if one is
\* configured, else the password if one is).
Admissible(p) ==
    /\ p.client
    /\ p.minProtocol = Undefined \/ p.minProtocol <= 3
    /\ p.maxProtocol # Undefined /\ 3 <= p.maxProtocol
    /\ config.authToken # "" => p.token = config.authToken
    /\ config.authToken = "" /\ config.authPassword # "" => p.password = config.authPassword

Connected(cs) == {c \in Conns : cs[c].st \in {"open", "closing"}}

\* The connections among them that have completed the handshake.
Authenticated(cs) == {c \in Connected(cs) : cs[c].authenticated}

\* C11: at all times the presence list holds exactly one entry per
\* authenticated connection and nothing else (a connection counts until its
\* close handler has run): the instanceIds are unique, an entry with id c
\* exists iff connection c is authenticated, and the list is as long as there
\* are authenticated connections.
C11_PresenceExact ==
    /\ \A i, j \in DOMAIN presence : i # j => presence[i] # presence[j]
    /\ \A c \in Conns : (\E i \in DOMAIN presence : presence[i] = c) <=> c \in Authenticated(conns)
    /\ Len(presence) = Cardinality(Authenticated(conns))

\* C11's case: two connections have authenticated and one of them has closed
\* since; the other's entry is the only one left.
C11_Witness ==
    /\ Len(presence) = 1
    /\ \E c \in Conns : conns[c].authenticated /\ conns[c].st = "closed"
    /\ \E c \in Conns : conns[c].authenticated /\ conns[c].st = "open"

\* The frame carries a snapshot of the presence list: a hello-ok response or a
\* presence event.
IsHelloOk(f) == f.type = "res" /\ f.ok /\ "presence" \in DOMAIN f.payload

IsPresenceEvent(f) == f.type = "event" /\ f.payload.event = "presence"

\* C12: stateVersion.presence never decreases and changes in exactly the steps
\* that change the presence list, and every hello-ok snapshot and presence
\* event sent in a step carries the list and the counter as the step leaves
\* them; so two snapshots with the same counter carry the same list.
C12_VersionTracksPresence ==
    [][/\ stateVersion'.presence >= stateVersion.presence
       /\ stateVersion'.presence # stateVersion.presence <=> presence' # presence
       /\ \A k \in DOMAIN out' :
             IsHelloOk(out'[k]) \/ IsPresenceEvent(out'[k]) =>
                /\ out'[k].payload.presence = presence'
                /\ out'[k].payload.stateVersion = stateVersion']_vars

\* C12's case: a presence event has just told the peers of a disconnect: the
\* list has shrunk and the counter has grown.
C12_Witness ==
    /\ \E k \in DOMAIN out : IsPresenceEvent(out[k]) /\ out[k].to # {}
    /\ stateVersion.presence = 3
    /\ Len(presence) = 1

\* The frame is an event that went through broadcast (the connect.challenge
\* event is sent to its socket directly).
IsBroadcast(f) == f.type = "event" /\ f.payload.event # "connect.challenge"

Broadcasts(frames) == SelectSeq(frames, IsBroadcast)

\* C14: the broadcast events of a step carry, in the order they are sent, the
\* seq values that follow the global seq before the step, one by one, and the
\* global seq ends at the last of them; so the seq values a connection
\* receives are strictly increasing, in the order broadcast enqueued them.
C14_SeqIncreasing ==
    [][/\ \A i \in DOMAIN Broadcasts(out') : Broadcasts(out')[i].seq = globalSeq + i
       /\ globalSeq' = globalSeq + Len(Broadcasts(out'))]_vars

\* C14's case: a step has just broadcast several events to a connection, after
\* earlier broadcasts.
C14_Witness ==
    /\ Len(Broadcasts(out)) >= 3
    /\ \A i \in DOMAIN Broadcasts(out) : Broadcasts(out)[i].to # {}
    /\ globalSeq > Len(Broadcasts(out)) + 1

\* The step handled a well-formed request that carries an idempotency key.
KeyedRequest(f) ==
    /\ f.kind = "ws" /\ f.shape = "req"
    /\ f.method \in {"chat.send", "agent", "send"}
    /\ f.params.idempotencyKey # "" /\ f.params.message # ""
    /\ f.method = "chat.send" => f.params.sessionKey # ""
    /\ f.method = "send" => f.params.to # ""

\* The frames answer the request with the duplicate-key error.
AnswersDuplicate(frames) ==
    \E k \in DOMAIN frames :
        /\ frames[k].type = "res" /\ ~frames[k].ok
        /\ frames[k].code = "INVALID_REQUEST"
        /\ frames[k].payload.message = "Duplicate idempotency key"

\* C15 (as stated): a chat.send, agent or send request whose key is in the
\* cache, first accepted at ts, is rejected as a duplicate when less than TTL
\* has passed since ts and is accepted once TTL has elapsed.  The code breaks
\* it: isDuplicateKey expires an entry only when more than TTL has passed, so
\* a request arriving exactly TTL after the first is still rejected.
C15_TtlWindow ==
    [][KeyedRequest(inbound') =>
          \A i \in DOMAIN idempotencyKeys :
              idempotencyKeys[i].key = inbound'.params.idempotencyKey =>
                  (AnswersDuplicate(out') <=> now - idempotencyKeys[i].ts < DedupeTtl)]_vars

\* The history holds the user entry of the message.
Holds(h, message) == \E i \in DOMAIN h : h[i] = UserEntry(message)

\* The step handled a request that clears the history of the session:
\* sessions.reset, sessions.delete, or a "/new" command.
Clears(f, key) ==
    /\ f.kind = "ws" /\ f.shape = "req"
    /\ \/ f.method = "sessions.reset" /\ key = (IF f.params.key = "" THEN "main" ELSE f.params.key)
       \/ f.method = "sessions.delete" /\ key = f.params.key
       \/ f.method = "chat.send" /\ f.params.message = "/new" /\ key = f.params.sessionKey

\* The step handled a chat.send request and created a run for it.
AcceptedSend(f) ==
    f.kind = "ws" /\ f.shape = "req" /\ f.method = "chat.send" /\ Len(runs') = Len(runs) + 1

\* C16: the step that accepts a chat.send stores the user message as the next
\* entry of the session history, before anything the run stores, and its
\* reply is the first frame it sends, before any event of the run; while the
\* run is running the entry stays in the history unless a request clears the
\* session, and a chat.history request served meanwhile (with the default
\* limit) returns it.
C16_UserMessageStored ==
    [][/\ AcceptedSend(inbound') /\ ~Clears(inbound', inbound'.params.sessionKey) =>
             LET p == inbound'.params
                 h == chatHistory'[p.sessionKey]
                 n == Len(chatHistory[p.sessionKey]) + 1
             IN /\ Len(h) >= n /\ h[n] = UserEntry(p.message)
                /\ out'[1] = SendResponse(inbound'.conn, inbound'.id,
                                          [runId |-> Len(runs'), sessionKey |-> p.sessionKey])
                /\ \A k \in DOMAIN out' : k > 1 => out'[k].type = "event"
       /\ \A r \in DOMAIN runs :
             /\ runs'[r].state = "running"
             /\ Holds(chatHistory[runs[r].sessionKey], runs[r].message)
             => /\ Clears(inbound', runs[r].sessionKey)
                   \/ Holds(chatHistory'[runs[r].sessionKey], runs[r].message)
                /\ /\ inbound'.kind = "ws" /\ inbound'.shape = "req"
                   /\ inbound'.method = "chat.history"
                   /\ inbound'.params.sessionKey = runs[r].sessionKey
                   /\ inbound'.params.limit = Undefined
                   => Holds(out'[1].payload.messages, runs[r].message)]_vars

\* C16's case: chat.history has just been answered while the run of a
\* chat.send is running and has emitted events, and the answer holds the
\* user message.
C16_Witness ==
    /\ inbound.kind = "ws" /\ inbound.shape = "req" /\ inbound.method = "chat.history"
    /\ \E r \in DOMAIN runs :
          /\ runs[r].state = "running" /\ runs[r].sessionKey = "main"
          /\ Len(events[r]) > 1
          /\ inbound.params.sessionKey = "main"
          /\ Holds(out[1].payload.messages, runs[r].message)

\* The step handled an agent request and created a run for it.
AcceptedAgent(f) ==
    f.kind = "ws" /\ f.shape = "req" /\ f.method = "agent" /\ Len(runs') = Len(runs) + 1

\* C17 (as stated): the step that accepts an agent request does what the step
\* that accepts a chat.send does, for the session named in the request or
\* "default": it stores the user message as the next entry of the session
\* history and creates the run.  The code breaks it: handleAgent never
\* appends the user message.
C17_AgentStoresUserMessage ==
    [][AcceptedAgent(inbound') =>
          LET p == inbound'.params
              key == IF p.sessionKey = "" THEN "default" ELSE p.sessionKey
              n == Len(chatHistory[key]) + 1
          IN /\ runs'[Len(runs')].sessionKey = key
             /\ Len(chatHistory'[key]) >= n
             /\ chatHistory'[key][n] = UserEntry(p.message)]_vars

\* The adapter of run r is waiting on its backend (the chat request or a read
\* of the stream), where a failure makes it throw, and the run is running.
AwaitsBackend(r) == runs[r].state = "running" /\ task[r].pc \in {"x.chat", "x.read"}

\* The context in which executeRun returns when the adapter of run r throws now.
Thrown(r) ==
    IF task[r].pc = "x.chat" THEN ResumeChat(Ctx(r), "error")
    ELSE ResumeRead(Ctx(r), "error", FALSE)

\* The frames answer every waiter of the run with the result `result'.
WaitersResolved(frames, waiters, result) ==
    \A i \in DOMAIN waiters :
        \E k \in DOMAIN frames :
            frames[k] = IF waiters[i].kind = "ws"
                        THEN SendResponse(waiters[i].conn, waiters[i].id, result)
                        ELSE HttpResolved(result)

\* C18: when the adapter throws while its run is running, the run ends in
\* state error: exactly agent lifecycle.error and chat error are emitted (and
\* broadcast), the histories are left as they were, every waiter is answered
\* with state = error and none stays registered; and every step that takes a
\* run from running to error has these effects.
C18_AdapterThrows ==
    [][\A r \in DOMAIN runs :
          LET result == [runId |-> r, state |-> "error", text |-> runs[r].accumulatedText]
          IN /\ AwaitsBackend(r) =>
                   LET x == Thrown(r) IN
                   /\ x.run.state = "error" /\ x.task.pc = "done"
                   /\ Len(x.ev) = 2 /\ IsError(x.ev[1]) /\ IsChatError(x.ev[2])
                   /\ Len(Broadcasts(x.sent)) = 2
                   /\ x.hist = chatHistory
                   /\ WaitersResolved(x.sent, runs[r].waitResolvers, result)
                   /\ x.run.waitResolvers = <<>>
             /\ runs[r].state = "running" /\ runs'[r].state = "error" =>
                   /\ AwaitsBackend(r)
                   /\ Len(events'[r]) = Len(events[r]) + 2
                   /\ IsError(events'[r][Len(events[r]) + 1])
                   /\ IsChatError(events'[r][Len(events[r]) + 2])
                   /\ chatHistory' = chatHistory
                   /\ WaitersResolved(out', runs[r].waitResolvers, result)
                   /\ runs'[r].waitResolvers = <<>>]_vars

\* C18's case: the adapter has thrown and the run, which had a waiter on a
\* socket, is in state error; the waiter has just been answered.
C18_Witness ==
    \E r \in DOMAIN runs :
        /\ runs[r].state = "error" /\ Returned(r)
        /\ Count(events[r], IsError) = 1 /\ Count(events[r], IsChatError) = 1
        /\ \E k \in DOMAIN out :
              /\ out[k].type = "res" /\ out[k].ok
              /\ out[k].payload = [runId |-> r, state |-> "error",
                                   text |-> runs[r].accumulatedText]

\* How many assistant entries a history holds.
Assistants(h) == Cardinality({i \in DOMAIN h : h[i].role = "assistant"})

\* The run ends in this step: it was running (or is created by the step) and
\* is not running after it.
EndsNow(r) ==
    /\ r \in DOMAIN runs => runs[r].state = "running"
    /\ runs'[r].state # "running"

\* C19 (as stated): the step in which a run ends adds one assistant entry,
\* with stopReason end_turn, to its session when the run ends completed, and
\* none when it ends in error or aborted.  The code breaks it: the run of a
\* slash command appends its reply (stopReason stop) in executeRun and
\* finishRun appends it again (stopReason end_turn).
C19_OneAssistantEntry ==
    [][\A r \in DOMAIN runs' :
          EndsNow(r) =>
             LET h0 == chatHistory[runs'[r].sessionKey]
                 h1 == chatHistory'[runs'[r].sessionKey]
             IN IF runs'[r].state = "completed"
                THEN /\ Assistants(h1) = Assistants(h0) + 1
                     /\ h1[Len(h1)].role = "assistant" /\ h1[Len(h1)].stopReason = "end_turn"
                ELSE Assistants(h1) = Assistants(h0)]_vars

\* The messages whose text begins with "/": commands, and "/foo", which is none.
BeginsWithSlash == {"/new", "/help", "/foo"}

\* The entry is an assistant entry carrying the reply to a slash command.
IsReplyEntry(e) == e.role = "assistant" /\ e.text = SlashReply

\* C20: the run of a message that begins with "/" is over when the step that
\* created it ends, and its task never waits on a backend: the run is
\* completed, its events are agent lifecycle.start, chat delta with the
\* reply, agent lifecycle.end and chat final, and the creating step leaves the
\* reply as the last entry of the session history.
C20_SlashNeverForwarded ==
    [][\A r \in DOMAIN runs' :
          runs'[r].message \in BeginsWithSlash =>
             /\ runs'[r].state = "completed" /\ task'[r].pc = "done"
             /\ runs'[r].accumulatedText = SlashReply
             /\ Len(events'[r]) = 4
             /\ IsStart(events'[r][1])
             /\ IsChatDelta(events'[r][2]) /\ events'[r][2].text = SlashReply
             /\ IsEnd(events'[r][3]) /\ IsChatFinal(events'[r][4])
             /\ r \notin DOMAIN runs =>
                   LET h == chatHistory'[runs'[r].sessionKey]
                   IN h # <<>> /\ IsReplyEntry(h[Len(h)])]_vars

\* C20's case: a server with a backend adapter has run "/foo", which is not a
\* command, and the reply is in the history.
C20_Witness ==
    /\ config.handler = "external"
    /\ \E r \in DOMAIN runs :
          /\ runs[r].message = "/foo" /\ runs[r].state = "completed"
          /\ \E i \in DOMAIN chatHistory[runs[r].sessionKey] :
                IsReplyEntry(chatHistory[runs[r].sessionKey][i])

\* The event closes a run: the terminal lifecycle event, or chat final / error.
IsTerminalLifecycle(e) == IsEnd(e) \/ IsError(e)
IsTerminalChat(e) == IsChatFinal(e) \/ IsChatError(e)

\* C21: in the event log of every run, lifecycle.start is the first event and
\* only the first; a terminal lifecycle event is the last but one, followed by
\* chat final or chat error, which is the last; so the start precedes every
\* other event and the two closing events follow every other event.
C21_EventOrder ==
    \A r \in DOMAIN runs :
        LET log == events[r] IN
        \A i \in DOMAIN log :
            /\ IsStart(log[i]) <=> i = 1
            /\ IsTerminalLifecycle(log[i]) =>
                  i = Len(log) - 1 /\ IsTerminalChat(log[Len(log)])
            /\ IsTerminalChat(log[i]) =>
                  i = Len(log) /\ i > 1 /\ IsTerminalLifecycle(log[i - 1])

\* C21's case: a run has emitted events between its start and its two closing
\* events.
C21_Witness ==
    \E r \in DOMAIN runs :
        /\ Len(events[r]) >= 6
        /\ IsStart(events[r][1])
        /\ IsEnd(events[r][Len(events[r]) - 1])
        /\ IsChatFinal(events[r][Len(events[r])])

\* Sequence p is a prefix of sequence q.
IsPrefix(p, q) == Len(p) <= Len(q) /\ SubSeq(q, 1, Len(p)) = p

\* C22 (as stated): in the event log of a run, the text of every chat delta
\* extends the text of every earlier chat delta of the run, across the rounds
\* of the tool loop too.  The code breaks it: the adapters start the
\* accumulated text afresh on every round, so the deltas of a later round do
\* not extend those of a round that produced text together with a tool call.
C22_DeltaExtends ==
    \A r \in DOMAIN runs :
        \A i, j \in DOMAIN events[r] :
            i < j /\ IsChatDelta(events[r][i]) /\ IsChatDelta(events[r][j]) =>
                IsPrefix(events[r][i].text, events[r][j].text)

\* The tool loop of run r has run out of rounds: the task has returned after
\* the last round allowed, whose stream asked for a tool once more.
Exceeded(r) ==
    /\ Returned(r) /\ runs[r].state # "aborted"
    /\ task[r].iter = MAX_ITERATIONS /\ task[r].calls # <<>>

\* C28 (as stated): a run whose tool loop exceeds the cap ends in state error,
\* with one agent lifecycle.error and one chat error event.  The code breaks
\* it: when the loop condition fails the adapter falls through to
\* finishRun(run, "completed"), so the run ends completed with lifecycle.end
\* and chat final.
C28_CapIsError ==
    \A r \in DOMAIN runs :
        Exceeded(r) =>
            /\ runs[r].state = "error"
            /\ Count(events[r], IsError) = 1 /\ Count(events[r], IsChatError) = 1
            /\ Count(events[r], IsEnd) = 0 /\ Count(events[r], IsChatFinal) = 0

\* The agent events of a log, in the order emitted.
AgentEvents(log) == SelectSeq(log, LAMBDA e : e.event = "agent")

\* C23: the agent events of a run carry, in the order emitted, the seq values
\* 1, 2, 3, ..., and run.seq is the last of them; so the seq of successive
\* agent events of a run is strictly increasing.
C23_AgentSeqIncreasing ==
    \A r \in DOMAIN runs :
        /\ \A i \in DOMAIN AgentEvents(events[r]) : AgentEvents(events[r])[i].seq = i
        /\ runs[r].seq = Len(AgentEvents(events[r]))

\* C23's case: a run has emitted several agent events, chat events between
\* them.
C23_Witness ==
    \E r \in DOMAIN runs :
        /\ Len(AgentEvents(events[r])) >= 4
        /\ Count(events[r], IsChatDelta) >= 2

\* The step is the handshake timer of socket c firing: the timer leaves the
\* table in a step that handles no frame and is neither the socket's close
\* handler nor stop().
TimerFired(c) ==
    /\ c \in handshakeTimeouts /\ c \notin handshakeTimeouts'
    /\ inbound' = NoFrame
    /\ conns'[c].st # "closed" /\ stopped' = stopped

ConnectHandled(f, c) ==
    f.kind = "ws" /\ f.shape = "req" /\ f.method = "connect" /\ f.conn = c

Disconnected(c) ==
    /\ conns[c].st \in {"open", "closing"} /\ conns[c].authenticated
    /\ conns'[c].st = "closed"

\* C26: the close handler of an authenticated connection sends one presence
\* event to the authenticated connections that remain; its list is the list
\* before the disconnect without the connection, one entry shorter.
C26_DisconnectObserved ==
    [][\A c \in Conns :
          Disconnected(c) =>
             /\ Len(out') = 1 /\ IsPresenceEvent(out'[1])
             /\ out'[1].to = Authenticated(conns) \ {c}
             /\ out'[1].to = Authenticated(conns')
             /\ out'[1].payload.presence = SelectSeq(presence, LAMBDA p : p # c)
             /\ Len(out'[1].payload.presence) = Len(presence) - 1
             /\ out'[1].payload.stateVersion.presence > stateVersion.presence]_vars

\* C26's case: one of two authenticated connections has just disconnected and
\* the other, still open, was sent the presence event.
C26_Witness ==
    /\ inbound = NoFrame
    /\ Len(out) = 1 /\ IsPresenceEvent(out[1])
    /\ Len(out[1].payload.presence) = 1
    /\ \E c \in Conns : conns[c].st = "closed" /\ conns[c].authenticated
    /\ \E d \in out[1].to : conns[d].st = "open"

\* The step is stop().
Stopping == ~stopped /\ stopped'

\* C29: stop() cancels every running run: each run that was running is
\* aborted and its cancellation signal has fired, the other runs are left as
\* they were; and once the server has stopped no run is ever running.
C29_StopCancelsRuns ==
    [][/\ Stopping =>
             \A r \in DOMAIN runs :
                 IF runs[r].state = "running"
                 THEN runs'[r].state = "aborted" /\ runs'[r].aborted
                 ELSE runs'[r] = runs[r]
       /\ stopped' => \A r \in DOMAIN runs' : runs'[r].state # "running"]_vars

\* C29's case: the server has just stopped while a run was running; the run is
\* aborted, its signal fired, and its task has yet to notice.
C29_Witness ==
    /\ stopped
    /\ \E k \in DOMAIN out : out[k].type = "event" /\ out[k].payload.event = "shutdown"
    /\ \E r \in DOMAIN runs :
          runs[r].state = "aborted" /\ runs[r].aborted /\ ~Returned(r)

\* The frame is the shutdown event.
IsShutdown(f) ==
    /\ f.type = "event" /\ f.payload.event = "shutdown"
    /\ f.payload.reason = "server_stop"

\* C30: stop() sends the shutdown event, as its first and only frame, to every
\* authenticated connection, among them all that are open, and it is stop()
\* that starts closing them: a connection open before the step is sent the
\* event while it is open and is closing after the step.
C30_ShutdownBeforeClose ==
    [][Stopping =>
          /\ Len(out') = 1 /\ IsShutdown(out'[1])
          /\ out'[1].to = Authenticated(conns)
          /\ \A c \in Conns :
                conns[c].st = "open" =>
                   /\ conns[c].authenticated => c \in out'[1].to
                   /\ conns'[c].st = "closing"]_vars

\* C30's case: the server has just stopped with two authenticated connections
\* open; both were sent the shutdown event and are closing.
C30_Witness ==
    /\ stopped /\ Len(out) = 1 /\ IsShutdown(out[1])
    /\ Cardinality(out[1].to) = 2
    /\ \A c \in out[1].to : conns[c].st = "closing" /\ conns[c].closeCode = 0

\* The frame is one the codec or the dispatcher rejects without judging the
\* handshake: it is not JSON, its type is absent or not "req" (the literal
\* null has no type either), it is a request without id or method, or it
\* names, on an authenticated connection, a method that is not registered.
Rejectable(f) ==
    /\ f.kind = "ws"
    /\ \/ f.shape \in {"malformed", "nonreq", "noid", "null"}
       \/ f.shape = "req" /\ f.method = ""
       \/ f.shape = "req" /\ conns[f.conn].authenticated /\ f.method \in {"connect", "nope"}

\* C27 (as stated): such a frame is answered with one INVALID_REQUEST
\* response and the step closes nothing, so the connection keeps serving.
\* The code breaks it for the frame `null': JSON.parse returns null, reading
\* frame.type throws, and the frame is never answered.
C27_RejectedKeepsOpen ==
    [][Rejectable(inbound') => AnswersInvalid /\ conns' = conns]_vars

\* The step handled a POST /v1/chat/completions that lacks the right bearer
\* credential, on a server configured with a token.
Unauthorized(f) == f.kind = "http" /\ config.authToken # "" /\ ~f.bearer

Closes(c) == conns[c].st # "closed" /\ conns'[c].st = "closed"

\* The frame carries an event of a run.
IsRunEvent(f) == f.type = "event" /\ f.payload.event \in {"agent", "chat"}

\* C32: the close handler of a connection, the originating one included,
\* leaves every run, its task and its event log as they were; no run is ever
\* cancelled when nobody asks for it, so a task that returns has finished its
\* run as completed or error; and every event of a run is sent to exactly
\* the authenticated connections that are still open.
C32_RunsOutliveSocket ==
    [][/\ \A c \in Conns : Closes(c) => runs' = runs /\ task' = task /\ events' = events
       /\ \A r \in DOMAIN runs' :
             /\ ~runs'[r].aborted /\ runs'[r].state # "aborted"
             /\ task'[r].pc = "done" => runs'[r].state \in {"completed", "error"}
       /\ \A k \in DOMAIN out' :
             IsRunEvent(out'[k]) =>
                out'[k].to = {c \in Conns : conns'[c].st = "open" /\ conns'[c].authenticated}]_vars

\* C32's case: the originating connection has closed, and the run it started
\* has just completed: its chat final went to the other connection.
C32_Witness ==
    /\ conns[Owner].st = "closed" /\ conns[Owner].authenticated
    /\ \E r \in DOMAIN runs :
          /\ runs[r].state = "completed" /\ Returned(r)
          /\ runs[r].message \in {"weather", "think"}
          /\ out # <<>> /\ IsRunEvent(out[Len(out)])
          /\ out[Len(out)].payload.kind = "final"
          /\ out[Len(out)].payload.runId = r
          /\ out[Len(out)].to = Conns \ {Owner}

\* The frame is a sessions.delete request that names a session.
Deletes(f) ==
    f.kind = "ws" /\ f.shape = "req" /\ f.method = "sessions.delete" /\ f.params.key # ""

\* The session has neither history nor metadata.
Absent(key) == chatHistory[key] = <<>> /\ key \notin sessionMeta

\* C33: the step that handles sessions.delete(key) leaves the session without
\* history and without metadata, both at once, touches no other session, and
\* answers success; when the session was absent already it answers success
\* all the same and changes nothing in the stores or the runs.
C33_DeleteBoth ==
    [][Deletes(inbound') =>
          LET key == inbound'.params.key IN
          /\ chatHistory'[key] = <<>> /\ key \notin sessionMeta'
          /\ \A k \in Sessions \ {key} :
                chatHistory'[k] = chatHistory[k] /\ (k \in sessionMeta' <=> k \in sessionMeta)
          /\ Len(out') = 1 /\ out'[1].type = "res" /\ out'[1].ok
          /\ out'[1].id = inbound'.id /\ out'[1].payload = [key |-> key, deleted |-> TRUE]
          /\ Absent(key) =>
                /\ UNCHANGED <<chatHistory, sessionMeta, idempotencyKeys>>
                /\ UNCHANGED <<runs, task, events, globalSeq>>]_vars

\* C33's case: a client connected, sent a message to the session main, and,
\* the run completed, has just deleted the session: history and metadata are
\* gone.
C33_Witness ==
    /\ Deletes(inbound) /\ Len(responses) = 3
    /\ Absent(inbound.params.key)
    /\ \E r \in DOMAIN runs :
          /\ runs[r].sessionKey = inbound.params.key /\ runs[r].message = "hello"
          /\ runs[r].state = "completed"

\* The frame is a chat.history request that names a session.
AsksHistory(f) ==
    f.kind = "ws" /\ f.shape = "req" /\ f.method = "chat.history" /\ f.params.sessionKey # ""

\* The limit in force for a chat.history request: 50 by default, 1000 at most.
Limit(p) == IF p.limit = Undefined THEN 50 ELSE IF p.limit < 1000 THEN p.limit ELSE 1000

\* C34 (as stated): chat.history answers with the last L stored entries of the
\* session, in the order stored, L being the limit in force, or with all of
\* them when fewer than L are stored.  The code breaks it for limit 0:
\* history.slice(-0) is the whole history, not its last 0 entries.
C34_LastEntries ==
    [][AsksHistory(inbound') =>
          LET h == chatHistory[inbound'.params.sessionKey]
              L == Limit(inbound'.params)
          IN /\ Len(out') = 1 /\ out'[1].type = "res" /\ out'[1].ok
             /\ out'[1].payload.messages =
                   IF Len(h) <= L THEN h ELSE [i \in 1..L |-> h[Len(h) - L + i]]]_vars

\* A chatAndWait call on run r has not returned: its resolver is still
\* registered on the run.
HttpPending(r) ==
    /\ r \in DOMAIN runs
    /\ \E j \in DOMAIN runs[r].waitResolvers : runs[r].waitResolvers[j].kind = "http"

\* C35 (as stated): a chatAndWait call whose run has reached a terminal state
\* (completed, error or aborted) eventually returns.  The code breaks it for
\* aborted runs: chat.abort and stop() set the state and resolve nobody, the
\* task returns without finishRun, and the promise is never resolved.
C35_ChatAndWaitReturns ==
    \A r \in RunIds : (HttpPending(r) /\ Ended(r)) ~> ~HttpPending(r)

\* The step dispatches a tool call of run r: the task comes to await
\* mcpManager.callTool (or the demo tool's sleep) for a call it was not
\* awaiting before.
Dispatches(r) ==
    /\ task'[r].pc \in {"x.mcp", "d.tool"}
    /\ task[r].pc # task'[r].pc \/ task[r].i # task'[r].i

\* C36 (as stated): once the cancellation signal of a run has fired, its
\* adapter emits no further event for the run and dispatches no further tool
\* call.  The code breaks it: the Ollama and OpenAI-compatible adapters look
\* at the signal at the head of the tool loop and before each read of the
\* stream only, so when callTool returns after the signal fired they emit the
\* tool result and go on to the next tool call of the round.
C36_CancelObserved ==
    [][\A r \in DOMAIN runs :
          runs[r].aborted => events'[r] = events[r] /\ ~Dispatches(r)]_vars

\* The streaming calls run r has made to the backend before the step (none
\* when the step creates the run).
CallsBefore(r) == IF r \in DOMAIN task THEN task[r].iter ELSE 0

\* The step makes a streaming call to the backend for run r: the task comes
\* to await ollamaChat.
CallsBackend(r) ==
    /\ task'[r].pc = "x.chat"
    /\ r \in DOMAIN task => task[r].pc # "x.chat"

\* C37: every streaming call a run makes to the backend begins one more round
\* of the tool loop, the count of rounds never goes back, and it never
\* exceeds MAX_ITERATIONS; so a run makes at most MAX_ITERATIONS streaming
\* calls, and after the last round allowed the task leaves the loop even when
\* the backend asked for a tool once more.
C37_LoopBounded ==
    [][\A r \in DOMAIN runs' :
          /\ task'[r].iter <= MAX_ITERATIONS
          /\ CallsBackend(r) => task'[r].iter = CallsBefore(r) + 1
          /\ task'[r].iter >= CallsBefore(r)]_vars

\* C37's case: the backend asked for a tool in every round and the task has
\* left the loop after the last round allowed.
C37_Witness ==
    \E r \in DOMAIN runs :
        /\ Exceeded(r) /\ runs[r].seq > 2 * MAX_ITERATIONS
        /\ task[r].parts = MAX_ITERATIONS

\* The step handled a request that the server accepted and whose idempotency
\* key it recorded.
Recorded(f) ==
    /\ f.kind = "ws" /\ f.shape = "req" /\ f.method \in {"send", "chat.send", "agent"}
    /\ out' # <<>> /\ out'[1].type = "res" /\ out'[1].ok

\* C38: the idempotency cache never holds more than DedupeMaxKeys entries;
\* the step that records a key appends it as the newest entry, and when the
\* cache (the key's own expired entry set aside) is full it drops the entry
\* inserted first, that one only, and keeps the others as they were.
C38_CacheBounded ==
    [][/\ Len(idempotencyKeys') <= DedupeMaxKeys
       /\ Recorded(inbound') =>
             LET key == inbound'.params.idempotencyKey
                 kept == SelectSeq(idempotencyKeys, LAMBDA e : e.key # key)
                 entry == [key |-> key, ts |-> now]
             IN IF Len(kept) = DedupeMaxKeys
                THEN idempotencyKeys' = Tail(kept) \o <<entry>>
                ELSE idempotencyKeys' = kept \o <<entry>>]_vars

\* C38's case: three keys were recorded at the same instant in a cache of two;
\* the third has just evicted the first, and the second is now the oldest.
C38_Witness ==
    /\ now = 0 /\ Len(responses) = 4
    /\ inbound.kind = "ws" /\ inbound.method = "send"
    /\ inbound.params.idempotencyKey = "k3"
    /\ Len(idempotencyKeys) = DedupeMaxKeys
    /\ idempotencyKeys[1].key = "k2" /\ idempotencyKeys[Len(idempotencyKeys)].key = "k3"

\* The step is a chat.abort that fires the cancellation signal of run r.
AbortedByRequest(r) ==
    /\ inbound'.kind = "ws" /\ inbound'.shape = "req" /\ inbound'.method = "chat.abort"
    /\ ~runs[r].aborted /\ runs'[r].aborted

Targets(f, key) ==
    /\ f.kind = "ws" /\ f.shape = "req"
    /\ \/ f.method \in {"chat.send", "chat.inject"} /\ f.params.sessionKey = key
       \/ f.method = "agent"
          /\ key = (IF f.params.sessionKey = "" THEN "default" ELSE f.params.sessionKey)
       \/ f.method = "sessions.patch" /\ f.params.key = key

\* C40 (as stated): a session without history and metadata, as sessions.delete
\* leaves it, stays so until a step handles a request that targets it; no
\* step of a run already in flight re-creates it.  The code breaks it:
\* finishRun appends the assistant entry of a run that completes after the
\* delete, and appendHistory creates history and metadata anew.
C40_DeletedStaysDeleted ==
    [][\A key \in Sessions :
          Absent(key) /\ ~Targets(inbound', key) =>
             chatHistory'[key] = <<>> /\ key \notin sessionMeta']_vars

====
